---- MODULE Spec2Model ----
(***************************************************************************)
(* Tickr: the application state engine (src/src/app/state.rs) over the     *)
(* SQLite store (src/src/db/*.rs).                                         *)
(*                                                                         *)
(* One update(event) call is one step.  The handlers are operators on a    *)
(* record s that carries the fields of App, the store (db), the log of the *)
(* Store calls issued during the current update (calls) and the set of     *)
(* call positions that fail during it (fail).  Option<T> is a sequence of  *)
(* length <= 1; cursors are 0-based as in the source.                      *)
(***************************************************************************)
EXTENDS Integers, Sequences, FiniteSets, TLC

\* ------------------------------------------------------------------ bounds
NumProjects == 2        \* projects in the initial store
MaxTickrs == 3          \* rows of the entries table
MaxIntervals == 3       \* rows of the intervals table
MaxHistory == 3         \* entries of view_history
MaxLabelLen == 1        \* characters typed into a popup label
MaxFailures == 1        \* Store calls that fail during one run
MaxTime == 1            \* the clock reading of every call made by the engine
MaxEvents == 4          \* events fed to update during one run
MaxCategories == 2      \* rows of the categories table
MaxColorLen == 7        \* characters typed into the colour field
MaxStoredIntervals == 2 \* intervals of a store drawn for the summaries
MaxStartFailures == 4   \* Store calls that fail while the App is built

\* ------------------------------------------------------------------ options
None == <<>>
Some(x) == <<x>>
IsSome(o) == o # <<>>
Unwrap(o) == o[1]

saturating_sub(a, b) == IF a >= b THEN a - b ELSE 0

Now == MaxTime

\* ------------------------------------------------------------------ views
Views ==
    {"Dashboard", "Projects", "Tickrs", "ProjectTickrs", "WorkedProjects",
     "Timeline", "Categories", "TickrDetail", "Help"}

TABS == <<"Dashboard", "Projects", "Tickrs", "WorkedProjects", "Timeline", "Categories">>

\* ------------------------------------------------------------------ store
\* The store is the four tables of migrations.rs, each a sequence of rows in
\* rowid order.
ProjectName(id) == <<"a", "b", "x", "y">>[id]

query_projects(db) == db.projects

query_project_by_id(id, db) ==
    LET found == SelectSeq(db.projects, LAMBDA p : p.id = id)
    IN IF found = <<>> THEN None ELSE Some(found[1])

query_intervals_by_tickr_id(tickr_id, db) ==
    SelectSeq(db.intervals, LAMBDA i : i.entry_id = tickr_id)

TickrOfRow(row, db) ==
    [id |-> row.id, project_id |-> row.project_id, description |-> row.description,
     category_id |-> row.category_id,
     intervals |-> query_intervals_by_tickr_id(row.id, db)]

query_tickr_all(db) ==
    [k \in 1..Len(db.entries) |-> TickrOfRow(db.entries[k], db)]

query_tickr_by_project_id(project_id, db) ==
    LET rows == SelectSeq(db.entries, LAMBDA e : e.project_id = project_id)
    IN [k \in 1..Len(rows) |-> TickrOfRow(rows[k], db)]

query_tickr_by_id(id, db) ==
    LET rows == SelectSeq(db.entries, LAMBDA e : e.id = id)
    IN IF rows = <<>> THEN None ELSE Some(TickrOfRow(rows[1], db))

create_tickr(project_id, description, category_id, db) ==
    [db EXCEPT !.entries = Append(@, [id |-> Len(@) + 1, project_id |-> project_id,
                                      description |-> description,
                                      category_id |-> category_id])]

start_tickr(id, db) ==
    [db EXCEPT !.intervals = Append(@, [id |-> Len(@) + 1, entry_id |-> id,
                                        start_time |-> Now, end_time |-> None])]

end_tickr(id, db) ==
    [db EXCEPT !.intervals =
        [k \in 1..Len(@) |->
            IF @[k].entry_id = id /\ @[k].end_time = None
            THEN [@[k] EXCEPT !.end_time = Some(Now)]
            ELSE @[k]]]

\* update_tickr_details as it would be if it wrote the description alone.
update_tickr_details_description_only(id, description, category_id, db) ==
    [db EXCEPT !.entries =
        [k \in 1..Len(@) |->
            IF @[k].id = id THEN [@[k] EXCEPT !.description = description] ELSE @[k]]]

update_tickr_details(id, description, category_id, db) ==
    [db EXCEPT !.entries =
        [k \in 1..Len(@) |->
            IF @[k].id = id
            THEN [@[k] EXCEPT !.description = description, !.category_id = category_id]
            ELSE @[k]]]

\* categories.name is UNIQUE: the INSERT of a name already there is an error.
NameTaken(name, db) == \E k \in 1..Len(db.categories) : db.categories[k].name = name

create_category(name, color, db) ==
    [db EXCEPT !.categories = Append(@, [id |-> Len(@) + 1, name |-> name,
                                         color |-> color])]

query_categories(db) == db.categories

query_category_by_id(id, db) ==
    LET found == SelectSeq(db.categories, LAMBDA c : c.id = id)
    IN IF found = <<>> THEN None ELSE Some(found[1])

\* Every interval of the model starts today, so a project was worked on today
\* (and this week) when one of its entries has an interval.
query_project_worked_on(db) ==
    SelectSeq(db.projects,
              LAMBDA p : \E e \in 1..Len(db.entries) :
                            /\ db.entries[e].project_id = p.id
                            /\ \E i \in 1..Len(db.intervals) :
                                  db.intervals[i].entry_id = db.entries[e].id)

RECURSIVE Call(_, _, _)

\* ------------------------------------------------------------------ store calls
\* A Store call fails when its position in the update is in s.fail; it is
\* logged with its outcome.
Failing(s) == (Len(s.calls) + 1) \in s.fail
Called(s, name) == [s EXCEPT !.calls = Append(@, [call |-> name, ok |-> ~Failing(s)])]

\* ------------------------------------------------------------------ tickrs
LastOpen(tickr) ==
    /\ tickr.intervals # <<>>
    /\ tickr.intervals[Len(tickr.intervals)].end_time = None

\* The first of the (1-based) indices at which a test holds, 0 when there is none.
Position(hits) ==
    IF hits = {} THEN 0 ELSE CHOOSE k \in hits : \A j \in hits : k <= j

\* ------------------------------------------------------------------ aggregates
\* total_seconds without the guard on the sign of a duration.
RECURSIVE total_seconds_unguarded(_)
total_seconds_unguarded(intervals) ==
    IF intervals = <<>> THEN 0
    ELSE (IF IsSome(Head(intervals).end_time)
          THEN Unwrap(Head(intervals).end_time) - Head(intervals).start_time
          ELSE 0)
         + total_seconds_unguarded(Tail(intervals))

RECURSIVE total_seconds(_)
total_seconds(intervals) ==
    IF intervals = <<>> THEN 0
    ELSE LET interval == Head(intervals)
             seconds == IF IsSome(interval.end_time)
                        THEN Unwrap(interval.end_time) - interval.start_time
                        ELSE 0
         IN (IF seconds > 0 THEN seconds ELSE 0) + total_seconds(Tail(intervals))

RECURSIVE SumOver(_, _)
SumOver(tickrs, project_id) ==
    IF tickrs = <<>> THEN 0
    ELSE (IF Head(tickrs).project_id = project_id
          THEN total_seconds(Head(tickrs).intervals) ELSE 0)
         + SumOver(Tail(tickrs), project_id)

\* The HashMap<ProjectId, ProjectSummary> built from a full tickr scan.
project_summary(tickrs) ==
    [p \in {tickrs[k].project_id : k \in 1..Len(tickrs)} |->
        LET mine == {k \in 1..Len(tickrs) : tickrs[k].project_id = p}
            open == {k \in mine : LastOpen(tickrs[k]) \/ tickrs[k].intervals = <<>>}
        IN [total_seconds |-> SumOver(tickrs, p),
            ended |-> Cardinality(mine \ open),
            open |-> Cardinality(open)]]

\* ------------------------------------------------------------------ display
\* The hours, minutes and seconds a duration is printed as.
format_duration(duration) ==
    LET seconds == IF duration > 0 THEN duration ELSE 0
    IN <<seconds \div 3600, (seconds % 3600) \div 60, seconds % 60>>

\* The fold of a tickr's line: every interval adds its end, or now when it
\* has none, less its start.
RECURSIVE total_duration(_, _)
total_duration(intervals, now) ==
    IF intervals = <<>> THEN 0
    ELSE total_duration(SubSeq(intervals, 1, Len(intervals) - 1), now)
         + (IF IsSome(intervals[Len(intervals)].end_time)
            THEN Unwrap(intervals[Len(intervals)].end_time)
            ELSE now)
         - intervals[Len(intervals)].start_time

\* The elapsed time of the line of a tickr that has intervals.
elapsed(intervals, now) == format_duration(total_duration(intervals, now))

\* ------------------------------------------------------------------ search
RECURSIVE trim_start(_)
trim_start(text) ==
    IF text # <<>> /\ Head(text) = " " THEN trim_start(Tail(text)) ELSE text

RECURSIVE trim_end(_)
trim_end(text) ==
    IF text # <<>> /\ text[Len(text)] = " "
    THEN trim_end(SubSeq(text, 1, Len(text) - 1)) ELSE text

trim(text) == trim_end(trim_start(text))

\* The text part occurs in the text whole.
Occurs(part, whole) ==
    \E i \in 0..(Len(whole) - Len(part)) : SubSeq(whole, i + 1, i + Len(part)) = part

\* The projects whose name contains the query; project names are single
\* characters.
search_projects_by_name(query, db) ==
    SelectSeq(db.projects, LAMBDA project : Occurs(query, <<project.name>>))

\* clear_status as it would be if it kept the message.
clear_status_keeping(s) == s

\* ------------------------------------------------------------------ loads
clear_status(s) == [s EXCEPT !.status = None]

\* The cursor as it would be if a reload left it where it was.
ClampIndexKeeping(index, len) == index

ClampIndex(index, len) == IF index >= len THEN saturating_sub(len, 1) ELSE index

CachedCategoryIds(s) == {c.id : c \in s.categories}

MissingCategories(s) ==
    LET fromTickrs == UNION {{Unwrap(s.tickrs[k].category_id)} : 
                              k \in {j \in 1..Len(s.tickrs) : IsSome(s.tickrs[j].category_id)}}
        fromSelected == IF IsSome(s.selected_tickr) /\ IsSome(Unwrap(s.selected_tickr).category_id)
                        THEN {Unwrap(Unwrap(s.selected_tickr).category_id)} ELSE {}
    IN (fromTickrs \cup fromSelected) \ CachedCategoryIds(s)

\* The loop over the missing ids; the set is walked in ascending id order.
RECURSIVE FetchCategories(_, _)
FetchCategories(s, missing) ==
    IF missing = {} THEN s
    ELSE LET id == CHOOSE x \in missing : \A y \in missing : x <= y
             c == Called(s, "query_category_by_id")
         IN IF Failing(s)
            THEN [c EXCEPT !.status = Some("Failed to load categories")]
            ELSE LET got == query_category_by_id(id, s.db)
                 IN FetchCategories(
                        IF IsSome(got) THEN [c EXCEPT !.categories = @ \cup {Unwrap(got)}] ELSE c,
                        missing \ {id})

refresh_categories_for_tickrs(s) == FetchCategories(s, MissingCategories(s))

refresh_project_summaries(s) ==
    LET c == Called(s, "query_tickr")
    IN IF Failing(s)
       THEN [c EXCEPT !.status = Some("Failed to load project summaries")]
       ELSE [c EXCEPT !.project_summaries = project_summary(query_tickr_all(s.db))]

\* load_projects as it would be without the search.
load_projects_unfiltered(s) ==
    LET c == Called(s, "query_projects")
    IN IF Failing(s)
       THEN [c EXCEPT !.status = Some("Failed to load projects")]
       ELSE LET projects == query_projects(s.db)
            IN Call([c EXCEPT !.projects = projects,
                              !.status = None,
                              !.selected_project_index = ClampIndex(@, Len(projects))],
                    "refresh_project_summaries", <<>>)

load_projects(s) ==
    LET query == trim(s.projects_search_query)
        c == Called(s, IF query = <<>> THEN "query_projects" ELSE "search_projects_by_name")
    IN IF Failing(s)
       THEN [c EXCEPT !.status = Some("Failed to load projects")]
       ELSE LET projects == IF query = <<>> THEN query_projects(s.db)
                            ELSE search_projects_by_name(query, s.db)
            IN Call([c EXCEPT !.projects = projects,
                              !.status = None,
                              !.selected_project_index = ClampIndex(@, Len(projects))],
                    "refresh_project_summaries", <<>>)

load_worked_projects(s) ==
    LET c == Called(s, "query_project_worked_on")
    IN IF Failing(s)
       THEN [c EXCEPT !.status = Some("Failed to load worked projects")]
       ELSE LET projects == query_project_worked_on(s.db)
            IN [c EXCEPT !.worked_projects = projects,
                         !.status = None,
                         !.selected_worked_project_index = ClampIndex(@, Len(projects))]

load_tickrs(s) ==
    LET c == Called(s, "query_tickr")
    IN IF Failing(s)
       THEN [c EXCEPT !.status = Some("Failed to load tickrs")]
       ELSE LET tickrs == query_tickr_all(s.db)
            IN Call([c EXCEPT !.tickrs = tickrs,
                              !.status = None,
                              !.selected_tickr_index = ClampIndex(@, Len(tickrs))],
                    "refresh_categories_for_tickrs", <<>>)

load_timeline(s) == Call(s, "load_tickrs", <<>>)

\* A category name is a text, a sequence of characters; to_lowercase folds
\* the upper-case letters, and texts compare as str does, character by
\* character in the order of their codes.
LowerOf(ch) ==
    CASE ch = "A" -> "a" [] ch = "B" -> "b" [] ch = "C" -> "c" [] ch = "D" -> "d"
      [] ch = "E" -> "e" [] ch = "F" -> "f" [] ch = "X" -> "x" [] ch = "Y" -> "y"
      [] OTHER -> ch
to_lowercase(name) == [k \in 1..Len(name) |-> LowerOf(name[k])]
NameOrder == <<" ", "#", "0", "1", "2", "3", "4", "5", "6", "7", "8", "9",
               "a", "b", "c", "d", "e", "f", "g", "x", "y">>
CharRank(ch) == CHOOSE k \in 1..Len(NameOrder) : NameOrder[k] = ch

RECURSIVE NameLess(_, _)
NameLess(a, b) ==
    IF b = <<>> THEN FALSE
    ELSE IF a = <<>> THEN TRUE
    ELSE IF a[1] = b[1] THEN NameLess(Tail(a), Tail(b))
    ELSE CharRank(a[1]) < CharRank(b[1])

\* a.name.to_lowercase().cmp(&b.name.to_lowercase()) is not Greater.
NameLeq(a, b) == ~NameLess(to_lowercase(b), to_lowercase(a))

\* Vec::sort_by on the lower-cased names, a stable sort: each category goes
\* behind the ones before it whose name is not greater.
InsertByName(sorted, category) ==
    LET k == Cardinality({j \in 1..Len(sorted) : NameLeq(sorted[j].name, category.name)})
    IN SubSeq(sorted, 1, k) \o <<category>> \o SubSeq(sorted, k + 1, Len(sorted))

RECURSIVE sort_by_name(_)
sort_by_name(categories) ==
    IF categories = <<>> THEN <<>>
    ELSE InsertByName(sort_by_name(SubSeq(categories, 1, Len(categories) - 1)),
                      categories[Len(categories)])

load_categories(s) ==
    LET c == Called(s, "query_categories")
    IN IF Failing(s)
       THEN [c EXCEPT !.status = Some("Failed to load categories")]
       ELSE LET categories == sort_by_name(query_categories(s.db))
            IN [c EXCEPT !.categories_list = categories,
                         !.status = None,
                         !.selected_category_index = ClampIndex(@, Len(categories))]

load_project_tickrs(s) ==
    IF s.selected_project = None
    THEN [s EXCEPT !.tickrs = <<>>]
    ELSE LET c == Called(s, "query_tickr")
         IN IF Failing(s)
            THEN [c EXCEPT !.status = Some("Failed to load tickrs")]
            ELSE LET tickrs == query_tickr_by_project_id(Unwrap(s.selected_project).id, s.db)
                 IN Call([c EXCEPT !.tickrs = tickrs,
                                   !.status = None,
                                   !.selected_tickr_index = ClampIndex(@, Len(tickrs))],
                         "refresh_categories_for_tickrs", <<>>)

load_dashboard(s) ==
    Call(Call(Call(s, "load_projects", <<>>), "load_tickrs", <<>>), "load_categories", <<>>)

refresh_tickr_detail(s) ==
    IF s.selected_tickr = None THEN s
    ELSE LET c == Called(s, "query_tickr_by_id")
         IN IF Failing(s)
            THEN [c EXCEPT !.status = Some("Failed to refresh task")]
            ELSE LET updated == query_tickr_by_id(Unwrap(s.selected_tickr).id, s.db)
                 IN IF IsSome(updated)
                    THEN Call([c EXCEPT !.selected_tickr = updated, !.status = None],
                              "refresh_categories_for_tickrs", <<>>)
                    ELSE [c EXCEPT !.status = Some("Task not found.")]

load_content_for_view(s) ==
    CASE s.view = "Dashboard" -> Call(s, "load_dashboard", <<>>)
      [] s.view = "Projects" -> Call(s, "load_projects", <<>>)
      [] s.view = "Tickrs" -> Call(s, "load_tickrs", <<>>)
      [] s.view = "ProjectTickrs" -> Call(s, "load_project_tickrs", <<>>)
      [] s.view = "WorkedProjects" -> Call(s, "load_worked_projects", <<>>)
      [] s.view = "Timeline" -> Call(s, "load_timeline", <<>>)
      [] s.view = "Categories" -> Call(s, "load_categories", <<>>)
      [] s.view = "TickrDetail" -> Call(s, "refresh_tickr_detail", <<>>)
      [] s.view = "Help" -> s

refresh_view_data(s) ==
    CASE s.view = "Dashboard" -> Call(s, "load_dashboard", <<>>)
      [] s.view = "Projects" -> Call(s, "load_projects", <<>>)
      [] s.view = "Tickrs" -> Call(s, "load_tickrs", <<>>)
      [] s.view = "ProjectTickrs" -> Call(s, "load_project_tickrs", <<>>)
      [] s.view = "WorkedProjects" -> Call(s, "load_worked_projects", <<>>)
      [] s.view = "Timeline" -> Call(s, "load_timeline", <<>>)
      [] s.view = "Categories" -> Call(s, "load_categories", <<>>)
      [] s.view = "TickrDetail" -> Call(s, "refresh_tickr_detail", <<>>)
      [] s.view = "Help" -> s

\* refresh_running_tickrs as it would be if it only ever set the running id.
refresh_running_tickrs_keeping_id(s) ==
    LET c == Called(s, "query_tickr")
    IN IF Failing(s) THEN c
       ELSE LET tickrs == query_tickr_all(s.db)
                first == Position({k \in 1..Len(tickrs) : LastOpen(tickrs[k])})
            IN Call([c EXCEPT !.tickrs = tickrs,
                              !.running_tickr = IF first = 0 THEN @ ELSE Some(tickrs[first].id),
                              !.selected_tickr_index = ClampIndex(@, Len(tickrs))],
                    "refresh_categories_for_tickrs", <<>>)

refresh_running_tickrs(s) ==
    LET c == Called(s, "query_tickr")
    IN IF Failing(s) THEN c
       ELSE LET tickrs == query_tickr_all(s.db)
                first == Position({k \in 1..Len(tickrs) : LastOpen(tickrs[k])})
            IN Call([c EXCEPT !.tickrs = tickrs,
                              !.running_tickr = IF first = 0 THEN None ELSE Some(tickrs[first].id),
                              !.selected_tickr_index = ClampIndex(@, Len(tickrs))],
                    "refresh_categories_for_tickrs", <<>>)

\* ------------------------------------------------------------------ navigation
TabOf(view) ==
    Position({k \in 1..Len(TABS) :
                 \/ TABS[k] = view
                 \/ (view = "ProjectTickrs" /\ TABS[k] = "Tickrs")
                 \/ (view = "TickrDetail" /\ TABS[k] = "Tickrs")})

\* navigate_to as it would be if it pushed the view it enters.
navigate_to_pushing_target(s, view) ==
    IF s.view # view
    THEN LET s1 == [s EXCEPT !.view_history = Append(@, view),
                             !.view = view,
                             !.projects_search_active =
                                 IF view # "Projects" THEN FALSE ELSE @]
             s2 == Call(s1, "load_content_for_view", <<>>)
         IN IF TabOf(view) # 0
            THEN [s2 EXCEPT !.selected_tab_index = TabOf(view) - 1]
            ELSE s2
    ELSE s

\* navigate_to as it would be without its same-view guard.
navigate_to_unguarded(s, view) ==
    LET s1 == [s EXCEPT !.view_history = Append(@, s.view),
                        !.view = view,
                        !.projects_search_active =
                            IF view # "Projects" THEN FALSE ELSE @]
        s2 == Call(s1, "load_content_for_view", <<>>)
    IN IF TabOf(view) # 0
       THEN [s2 EXCEPT !.selected_tab_index = TabOf(view) - 1]
       ELSE s2

navigate_to(s, view) ==
    IF s.view # view
    THEN LET s1 == [s EXCEPT !.view_history = Append(@, s.view),
                             !.view = view,
                             !.projects_search_active =
                                 IF view # "Projects" THEN FALSE ELSE @]
             s2 == Call(s1, "load_content_for_view", <<>>)
         IN IF TabOf(view) # 0
            THEN [s2 EXCEPT !.selected_tab_index = TabOf(view) - 1]
            ELSE s2
    ELSE s

\* go_back as it would be if it read the top of the history without popping it.
go_back_peeking(s) ==
    IF s.view_history # <<>>
    THEN clear_status(
             Call([s EXCEPT !.view = s.view_history[Len(s.view_history)]],
                  "load_content_for_view", <<>>))
    ELSE clear_status(s)

go_back(s) ==
    IF s.view_history # <<>>
    THEN clear_status(
             Call([s EXCEPT !.view = s.view_history[Len(s.view_history)],
                            !.view_history = SubSeq(@, 1, Len(@) - 1)],
                  "load_content_for_view", <<>>))
    ELSE clear_status(s)

navigate_tab_left(s) ==
    [s EXCEPT !.selected_tab_index = IF @ = 0 THEN Len(TABS) - 1 ELSE @ - 1]

navigate_tab_right(s) ==
    [s EXCEPT !.selected_tab_index = (@ + 1) % Len(TABS)]

activate_selected_tab(s) ==
    [Call(s, "navigate_to", <<TABS[s.selected_tab_index + 1]>>) EXCEPT !.focus_mode = "Content"]

\* ------------------------------------------------------------------ selection
\* The step up as it would be if it stopped at the first row.
WrapUpStopping(index, len) == IF index = 0 THEN 0 ELSE index - 1

WrapUp(index, len) == IF index = 0 THEN len - 1 ELSE index - 1
\* The step down as it would be without the wraparound.
WrapDownUnbounded(index, len) == index + 1

WrapDown(index, len) == (index + 1) % len

move_selection_up(s) ==
    CASE s.view = "Projects" ->
            IF s.projects = <<>> THEN s
            ELSE [s EXCEPT !.selected_project_index = WrapUp(@, Len(s.projects))]
      [] s.view \in {"Tickrs", "ProjectTickrs"} ->
            IF s.tickrs = <<>> THEN s
            ELSE [s EXCEPT !.selected_tickr_index = WrapUp(@, Len(s.tickrs))]
      [] s.view = "WorkedProjects" ->
            IF s.worked_projects = <<>> THEN s
            ELSE [s EXCEPT !.selected_worked_project_index = WrapUp(@, Len(s.worked_projects))]
      [] s.view = "Categories" ->
            IF s.categories_list = <<>> THEN s
            ELSE [s EXCEPT !.selected_category_index = WrapUp(@, Len(s.categories_list))]
      [] OTHER -> s

move_selection_down(s) ==
    CASE s.view = "Projects" ->
            IF s.projects = <<>> THEN s
            ELSE [s EXCEPT !.selected_project_index = WrapDown(@, Len(s.projects))]
      [] s.view \in {"Tickrs", "ProjectTickrs"} ->
            IF s.tickrs = <<>> THEN s
            ELSE [s EXCEPT !.selected_tickr_index = WrapDown(@, Len(s.tickrs))]
      [] s.view = "WorkedProjects" ->
            IF s.worked_projects = <<>> THEN s
            ELSE [s EXCEPT !.selected_worked_project_index = WrapDown(@, Len(s.worked_projects))]
      [] s.view = "Categories" ->
            IF s.categories_list = <<>> THEN s
            ELSE [s EXCEPT !.selected_category_index = WrapDown(@, Len(s.categories_list))]
      [] OTHER -> s

\* Indexing a Vec past its end panics.
Panic(s) == [s EXCEPT !.panic = TRUE]

\* ------------------------------------------------------------------ running timer
current_tickr(s) ==
    CASE s.view \in {"Tickrs", "ProjectTickrs"} ->
            IF s.selected_tickr_index < Len(s.tickrs)
            THEN Some(s.tickrs[s.selected_tickr_index + 1]) ELSE None
      [] s.view = "TickrDetail" -> s.selected_tickr
      [] OTHER -> None

ReloadAfterToggle(s) ==
    CASE s.view = "Tickrs" -> Call(s, "load_tickrs", <<>>)
      [] s.view = "ProjectTickrs" -> Call(s, "load_project_tickrs", <<>>)
      [] s.view = "TickrDetail" -> Call(s, "refresh_tickr_detail", <<>>)
      [] OTHER -> s

\* The Store call toggle_tickr ends with: Ok sets the running id and reloads.
ToggleResult(s, id, write) ==
    LET c == Called(s, write)
    IN IF Failing(s)
       THEN [c EXCEPT !.status = Some("Failed to update task")]
       ELSE ReloadAfterToggle(
                [c EXCEPT !.db = IF write = "end_tickr"
                                 THEN end_tickr(id, s.db) ELSE start_tickr(id, s.db),
                          !.running_tickr = Some(id)])

\* toggle_tickr as it would be if it went on to start after a failed stop.
toggle_tickr_ignoring_failed_stop(s) ==
    LET current == current_tickr(s)
    IN IF current = None
       THEN [s EXCEPT !.status = Some("No task selected.")]
       ELSE
        LET tickr == Unwrap(current)
            id == tickr.id
            is_current_running == LastOpen(tickr) /\ Some(tickr.id) = s.running_tickr
        IN IF is_current_running
           THEN ToggleResult(s, id, "end_tickr")
           ELSE IF IsSome(s.running_tickr)
                THEN LET c == Called(s, "end_tickr")
                     IN ToggleResult(
                            [c EXCEPT !.db = IF Failing(s) THEN @
                                             ELSE end_tickr(Unwrap(s.running_tickr), @),
                                      !.running_tickr = None],
                            id, "start_tickr")
                ELSE ToggleResult(s, id, "start_tickr")

toggle_tickr(s) ==
    LET current == current_tickr(s)
    IN IF current = None
       THEN [s EXCEPT !.status = Some("No task selected.")]
       ELSE
        LET tickr == Unwrap(current)
            id == tickr.id
            is_current_running == LastOpen(tickr) /\ Some(tickr.id) = s.running_tickr
        IN IF is_current_running
           THEN ToggleResult(s, id, "end_tickr")
           ELSE IF IsSome(s.running_tickr)
                THEN LET c == Called(s, "end_tickr")
                     IN IF Failing(s)
                        THEN [c EXCEPT !.status =
                                 Some("Failed to stop currently running task")]
                        ELSE ToggleResult(
                                 [c EXCEPT !.db = end_tickr(Unwrap(s.running_tickr), s.db),
                                           !.running_tickr = None],
                                 id, "start_tickr")
                ELSE ToggleResult(s, id, "start_tickr")

\* ------------------------------------------------------------------ opening
lookup_project_name(s) ==
    \* the call; its result is read by the caller
    Called(s, "query_project_by_id")

go_to_project_by_id(s, project_id, highlight_tickr_id) ==
    LET c == Called(s, "query_project_by_id")
        found == IF Failing(s) THEN None ELSE query_project_by_id(project_id, s.db)
    IN IF found = None
       THEN [c EXCEPT !.status = Some("Project not found.")]
       ELSE
        LET s1 == Call(c, "load_projects", <<>>)
            index == Position({k \in 1..Len(s1.projects) : s1.projects[k].id = project_id})
            s2 == [s1 EXCEPT !.selected_project_index = IF index # 0 THEN index - 1 ELSE @,
                             !.selected_project = found]
            s3 == Call(Call(s2, "navigate_to", <<"ProjectTickrs">>), "load_project_tickrs", <<>>)
            at == IF IsSome(highlight_tickr_id)
                  THEN Position({k \in 1..Len(s3.tickrs) :
                                    s3.tickrs[k].id = Unwrap(highlight_tickr_id)})
                  ELSE 0
        IN [s3 EXCEPT !.selected_tickr_index = IF at # 0 THEN at - 1 ELSE @,
                      !.selected_tickr = None,
                      !.selected_tickr_project_name = None,
                      !.status = None]

open_selected_project(s) ==
    IF s.view # "Projects" \/ s.projects = <<>> THEN s
    ELSE IF s.selected_project_index >= Len(s.projects) THEN Panic(s)
    ELSE Call([s EXCEPT !.selected_project =
                                  Some(s.projects[s.selected_project_index + 1])], "navigate_to", <<"ProjectTickrs">>)

open_selected_worked_project(s) ==
    IF s.view # "WorkedProjects" \/ s.worked_projects = <<>> THEN s
    ELSE IF s.selected_worked_project_index >= Len(s.worked_projects) THEN Panic(s)
    ELSE Call(s, "go_to_project_by_id", <<s.worked_projects[s.selected_worked_project_index + 1].id, None>>)

open_selected_tickr(s) ==
    IF s.view \notin {"Tickrs", "ProjectTickrs"} \/ s.tickrs = <<>> THEN s
    ELSE IF s.selected_tickr_index >= Len(s.tickrs) THEN Panic(s)
    ELSE
     LET tickr == s.tickrs[s.selected_tickr_index + 1]
         c == lookup_project_name(s)
         project == IF Failing(s) THEN None ELSE query_project_by_id(tickr.project_id, s.db)
     IN Call([c EXCEPT !.selected_tickr_project_name =
                           IF IsSome(project) THEN Some(Unwrap(project).name) ELSE None,
                       !.selected_tickr = Some(tickr),
                       !.tickr_detail_parent = s.view],
             "navigate_to", <<"TickrDetail">>)

open_selected(s) ==
    CASE s.view = "Projects" -> Call(s, "open_selected_project", <<>>)
      [] s.view \in {"Tickrs", "ProjectTickrs"} -> Call(s, "open_selected_tickr", <<>>)
      [] s.view = "WorkedProjects" -> Call(s, "open_selected_worked_project", <<>>)
      [] OTHER -> s

go_to_project_from_tickr(s) ==
    IF s.view # "TickrDetail" \/ s.selected_tickr = None THEN s
    ELSE Call(s, "go_to_project_by_id", <<Unwrap(s.selected_tickr).project_id, Some(Unwrap(s.selected_tickr).id)>>)

\* stop_running_tickr without the tickr to highlight.
stop_running_tickr_unhighlighted(s) ==
    LET s1 == Call(s, "refresh_running_tickrs", <<>>)
        at == Position({k \in 1..Len(s1.tickrs) : LastOpen(s1.tickrs[k])})
    IN IF at = 0
       THEN [s1 EXCEPT !.status = Some("No task running.")]
       ELSE LET tickr == s1.tickrs[at]
                c == Called(s1, "end_tickr")
            IN IF Failing(s1)
               THEN [c EXCEPT !.status = Some("Failed to stop task")]
               ELSE Call([c EXCEPT !.db = end_tickr(tickr.id, s1.db)],
                         "go_to_project_by_id", <<tickr.project_id, None>>)

stop_running_tickr(s) ==
    LET s1 == Call(s, "refresh_running_tickrs", <<>>)
        at == Position({k \in 1..Len(s1.tickrs) : LastOpen(s1.tickrs[k])})
    IN IF at = 0
       THEN [s1 EXCEPT !.status = Some("No task running.")]
       ELSE LET tickr == s1.tickrs[at]
                c == Called(s1, "end_tickr")
            IN IF Failing(s1)
               THEN [c EXCEPT !.status = Some("Failed to stop task")]
               ELSE Call([c EXCEPT !.db = end_tickr(tickr.id, s1.db)],
                         "go_to_project_by_id", <<tickr.project_id, Some(tickr.id)>>)

toggle_worked_range(s) ==
    LET s1 == [s EXCEPT !.worked_range = IF @ = "Today" THEN "Week" ELSE "Today"]
    IN IF s1.view = "WorkedProjects" THEN Call(s1, "load_worked_projects", <<>>) ELSE s1

toggle_timeline_range(s) ==
    LET s1 == [s EXCEPT !.timeline_range = IF @ = "Day" THEN "Week" ELSE "Day"]
    IN IF s1.view = "Timeline" THEN Call(s1, "load_timeline", <<>>) ELSE s1

\* ------------------------------------------------------------------ NewTickr popup
CategoryOptions(categories) ==
    <<[id |-> None, name |-> <<"n", "o", "n", "e">>, color |-> None]>>
    \o [k \in 1..Len(categories) |->
           [id |-> Some(categories[k].id), name |-> categories[k].name,
            color |-> Some(categories[k].color)]]

open_new_tickr_popup(s) ==
    IF s.view # "Projects" /\ s.view # "ProjectTickrs" THEN s
    ELSE
     LET c1 == Called(s, "query_projects")
     IN IF Failing(s) THEN [c1 EXCEPT !.status = Some("Failed to load projects")]
        ELSE
         LET project_options == query_projects(s.db)
         IN IF project_options = <<>>
            THEN [c1 EXCEPT !.status = Some("No projects available.")]
            ELSE
             LET c2 == Called(c1, "query_categories")
             IN IF Failing(c1) THEN [c2 EXCEPT !.status = Some("Failed to load categories")]
                ELSE
                 LET category_options == CategoryOptions(sort_by_name(query_categories(s.db)))
                     selected_project_id ==
                        IF s.view = "ProjectTickrs"
                        THEN (IF IsSome(s.selected_project)
                              THEN Some(Unwrap(s.selected_project).id) ELSE None)
                        ELSE (IF s.selected_project_index < Len(s.projects)
                              THEN Some(s.projects[s.selected_project_index + 1].id)
                              ELSE None)
                     index == IF IsSome(selected_project_id)
                              THEN Position({k \in 1..Len(project_options) :
                                                project_options[k].id =
                                                    Unwrap(selected_project_id)})
                              ELSE 0
                 IN [c2 EXCEPT !.new_tickr_popup =
                        Some([label |-> <<>>,
                              project_index |-> IF index # 0 THEN index - 1 ELSE 0,
                              category_index |-> 0,
                              projects |-> project_options,
                              categories |-> category_options,
                              start_now |-> TRUE,
                              field |-> "Label"])]

ReloadAfterCreate(s) ==
    LET s1 == Call(s, "refresh_project_summaries", <<>>)
    IN CASE s1.view = "Projects" -> Call(s1, "load_projects", <<>>)
         [] s1.view = "ProjectTickrs" -> Call(s1, "load_project_tickrs", <<>>)
         [] s1.view = "Tickrs" -> Call(s1, "load_tickrs", <<>>)
         [] OTHER -> s1

\* The start_now branch, after the task row exists and the popup was taken.
StartCreated(s, tickr_id) ==
    LET stop == Called(s, "end_tickr")
        stopped == IF IsSome(s.running_tickr)
                   THEN [stop EXCEPT !.db = end_tickr(Unwrap(s.running_tickr), s.db),
                                     !.running_tickr = None]
                   ELSE s
        start == Called(stopped, "start_tickr")
    IN IF IsSome(s.running_tickr) /\ Failing(s)
       THEN [stop EXCEPT !.status = Some("Failed to stop running task")]
       ELSE IF Failing(stopped)
            THEN [start EXCEPT !.status = Some("Failed to start task")]
            ELSE ReloadAfterCreate(
                     [start EXCEPT !.db = start_tickr(tickr_id, stopped.db),
                                   !.running_tickr = Some(tickr_id),
                                   !.status = Some("Task created and started.")])

apply_new_tickr_popup(s) ==
    IF s.new_tickr_popup = None THEN s
    ELSE
     LET popup == Unwrap(s.new_tickr_popup)
         label == trim(popup.label)
     IN IF label = <<>>
        THEN [s EXCEPT !.status = Some("Task label is required.")]
        ELSE IF popup.project_index >= Len(popup.projects)
        THEN [s EXCEPT !.status = Some("Project selection is required.")]
        ELSE
         LET project_id == popup.projects[popup.project_index + 1].id
             category_id == IF popup.category_index < Len(popup.categories)
                            THEN popup.categories[popup.category_index + 1].id
                            ELSE None
             c == Called(s, "create_tickr")
         IN IF Failing(s)
            THEN [c EXCEPT !.status = Some("Failed to create task")]
            ELSE
             LET created == [c EXCEPT !.db = create_tickr(project_id, label, category_id, s.db),
                                      !.new_tickr_popup = None]
                 tickr_id == Len(created.db.entries)
             IN IF popup.start_now
                THEN StartCreated(created, tickr_id)
                ELSE ReloadAfterCreate([created EXCEPT !.status = Some("Task created.")])

NextField(field) ==
    CASE field = "Label" -> "Project"
      [] field = "Project" -> "Category"
      [] field = "Category" -> "StartNow"
      [] field = "StartNow" -> "Label"

\* KeyCode::Char(ch): the characters of the model's keyboard.
CharKeys ==
    {"q", "h", "p", "t", "w", "l", "c", "?", "r", " ", "s", "g", "n", "a", "e",
     "#", "f", "F", "/"}
IsChar(key) == key \in CharKeys

\* KeyCode: the keys of the model's keyboard.
Keys ==
    CharKeys \cup {"Tab", "BackTab", "Left", "Right", "Up", "Down", "Enter", "Esc",
                   "Backspace", "Delete"}

handle_new_tickr_key(s, key) ==
    LET popup == Unwrap(s.new_tickr_popup)
        With(p) == [s EXCEPT !.new_tickr_popup = Some(p)]
    IN CASE key = "Esc" -> clear_status([s EXCEPT !.new_tickr_popup = None])
         [] key = "Enter" -> Call(s, "apply_new_tickr_popup", <<>>)
         [] key = "Tab" -> With([popup EXCEPT !.field = NextField(@)])
         [] key = "Up" ->
              IF popup.field = "Project" /\ popup.projects # <<>>
              THEN With([popup EXCEPT !.project_index = WrapUp(@, Len(popup.projects))])
              ELSE IF popup.field = "Category" /\ popup.categories # <<>>
              THEN With([popup EXCEPT !.category_index = WrapUp(@, Len(popup.categories))])
              ELSE s
         [] key = "Down" ->
              IF popup.field = "Project" /\ popup.projects # <<>>
              THEN With([popup EXCEPT !.project_index = WrapDown(@, Len(popup.projects))])
              ELSE IF popup.field = "Category" /\ popup.categories # <<>>
              THEN With([popup EXCEPT !.category_index = WrapDown(@, Len(popup.categories))])
              ELSE s
         [] key = " " ->
              IF popup.field = "StartNow" THEN With([popup EXCEPT !.start_now = ~@])
              ELSE IF popup.field = "Label" THEN With([popup EXCEPT !.label = Append(@, " ")])
              ELSE s
         [] key = "Backspace" ->
              IF popup.field = "Label" /\ popup.label # <<>>
              THEN With([popup EXCEPT !.label = SubSeq(@, 1, Len(@) - 1)])
              ELSE s
         [] IsChar(key) /\ key # " " ->
              IF popup.field = "Label" THEN With([popup EXCEPT !.label = Append(@, key)])
              ELSE s
         [] OTHER -> s

\* ------------------------------------------------------------------ EditTickr popup
select_prev(popup) ==
    IF popup.categories = <<>> THEN popup
    ELSE IF popup.category_index = 0
    THEN [popup EXCEPT !.category_index = Len(popup.categories) - 1]
    ELSE [popup EXCEPT !.category_index = @ - 1]

select_next(popup) ==
    IF popup.categories = <<>> THEN popup
    ELSE [popup EXCEPT !.category_index = (@ + 1) % Len(popup.categories)]

open_edit_popup(s) ==
    IF s.view # "TickrDetail" THEN s
    ELSE IF s.selected_tickr = None
    THEN [s EXCEPT !.status = Some("No task selected.")]
    ELSE
     LET tickr == Unwrap(s.selected_tickr)
         c == Called(s, "query_categories")
     IN IF Failing(s) THEN [c EXCEPT !.status = Some("Failed to load categories")]
        ELSE
         LET options == CategoryOptions(sort_by_name(query_categories(s.db)))
             index == IF IsSome(tickr.category_id)
                      THEN Position({k \in 1..Len(options) :
                                        options[k].id = tickr.category_id})
                      ELSE 0
         IN [c EXCEPT !.edit_popup =
                Some([tickr_id |-> tickr.id,
                      label |-> tickr.description,
                      category_index |-> IF index # 0 THEN index - 1 ELSE 0,
                      categories |-> options])]

apply_edit_popup(s) ==
    IF s.edit_popup = None THEN s
    ELSE
     LET popup == Unwrap(s.edit_popup)
         category_id == IF popup.category_index < Len(popup.categories)
                        THEN popup.categories[popup.category_index + 1].id
                        ELSE None
         c == Called(s, "update_tickr_details")
     IN IF Failing(s)
        THEN [c EXCEPT !.status = Some("Failed to update task")]
        ELSE
         LET updated == [c EXCEPT !.db = update_tickr_details(popup.tickr_id, popup.label,
                                                              category_id, s.db),
                                  !.edit_popup = None,
                                  !.status = Some("Task updated.")]
             refreshed == Call(Call(updated, "refresh_tickr_detail", <<>>),
                               "refresh_categories_for_tickrs", <<>>)
         IN CASE refreshed.tickr_detail_parent = "Tickrs" ->
                    Call(refreshed, "load_tickrs", <<>>)
              [] refreshed.tickr_detail_parent = "ProjectTickrs" ->
                    Call(refreshed, "load_project_tickrs", <<>>)
              [] OTHER -> refreshed

handle_edit_key(s, key) ==
    LET popup == Unwrap(s.edit_popup)
        With(p) == [s EXCEPT !.edit_popup = Some(p)]
    IN CASE key = "Esc" -> clear_status([s EXCEPT !.edit_popup = None])
         [] key = "Enter" -> Call(s, "apply_edit_popup", <<>>)
         [] key = "Up" -> With(select_prev(popup))
         [] key = "Down" -> With(select_next(popup))
         [] key \in {"Backspace", "Delete"} ->
              IF popup.label # <<>>
              THEN With([popup EXCEPT !.label = SubSeq(@, 1, Len(@) - 1)])
              ELSE s
         [] IsChar(key) -> With([popup EXCEPT !.label = Append(@, key)])
         [] OTHER -> s

\* ------------------------------------------------------------------ NewCategory popup
HexDigits ==
    {"0", "1", "2", "3", "4", "5", "6", "7", "8", "9",
     "a", "b", "c", "d", "e", "f", "A", "B", "C", "D", "E", "F"}
is_ascii_hexdigit(ch) == ch \in HexDigits

UpperOf(ch) ==
    CASE ch = "a" -> "A" [] ch = "b" -> "B" [] ch = "c" -> "C" [] ch = "d" -> "D"
      [] ch = "e" -> "E" [] ch = "f" -> "F" [] ch = "g" -> "G" [] ch = "x" -> "X"
      [] ch = "y" -> "Y"
      [] OTHER -> ch
to_ascii_uppercase(text) == [k \in 1..Len(text) |-> UpperOf(text[k])]

SixHexDigits(text) ==
    /\ Len(text) = 6
    /\ \A k \in 1..Len(text) : is_ascii_hexdigit(text[k])

\* normalize_hex_color without the branch that strips the leading '#'.
normalize_hex_color_unprefixed(value) ==
    IF SixHexDigits(trim(value))
    THEN Some(<<"#">> \o to_ascii_uppercase(trim(value)))
    ELSE None

normalize_hex_color(value) ==
    LET trimmed == trim(value)
    IN IF trimmed = <<>> THEN None
       ELSE IF Head(trimmed) = "#"
       THEN (IF SixHexDigits(Tail(trimmed))
             THEN Some(<<"#">> \o to_ascii_uppercase(Tail(trimmed)))
             ELSE None)
       ELSE IF SixHexDigits(trimmed)
       THEN Some(<<"#">> \o to_ascii_uppercase(trimmed))
       ELSE None

\* open_new_category_popup without the test of the view.
open_new_category_popup_anywhere(s) ==
    [s EXCEPT !.new_category_popup =
        Some([name |-> <<>>, color |-> <<>>, field |-> "Name"])]

open_new_category_popup(s) ==
    IF s.view # "Categories" THEN s
    ELSE [s EXCEPT !.new_category_popup =
             Some([name |-> <<>>, color |-> <<>>, field |-> "Name"])]

apply_new_category_popup(s) ==
    IF s.new_category_popup = None THEN s
    ELSE
     LET popup == Unwrap(s.new_category_popup)
         name == trim(popup.name)
         color == normalize_hex_color(trim(popup.color))
     IN IF name = <<>>
        THEN [s EXCEPT !.status = Some("Category name is required.")]
        ELSE IF color = None
        THEN [s EXCEPT !.status = Some("Color must be a 6-digit hex value.")]
        ELSE
         LET rejected == Failing(s) \/ NameTaken(name, s.db)
             c == [s EXCEPT !.calls = Append(@, [call |-> "create_category",
                                                 ok |-> ~rejected])]
         IN IF rejected
            THEN [c EXCEPT !.status = Some("Failed to create category")]
            ELSE
             LET loaded == Call([c EXCEPT !.db = create_category(name, Unwrap(color), s.db),
                                          !.new_category_popup = None,
                                          !.status = Some("Category created.")],
                                "load_categories", <<>>)
                 index == Position({k \in 1..Len(loaded.categories_list) :
                                       loaded.categories_list[k].name = name})
             IN IF index # 0
                THEN [loaded EXCEPT !.selected_category_index = index - 1]
                ELSE loaded

handle_new_category_key(s, key) ==
    IF s.new_category_popup = None THEN s
    ELSE
     LET popup == Unwrap(s.new_category_popup)
         With(p) == [s EXCEPT !.new_category_popup = Some(p)]
     IN CASE key = "Esc" -> clear_status([s EXCEPT !.new_category_popup = None])
          [] key = "Enter" -> Call(s, "apply_new_category_popup", <<>>)
          [] key = "Tab" ->
               With([popup EXCEPT !.field = IF @ = "Name" THEN "Color" ELSE "Name"])
          [] key \in {"Backspace", "Delete"} ->
               IF popup.field = "Name"
               THEN With([popup EXCEPT !.name =
                             IF @ = <<>> THEN @ ELSE SubSeq(@, 1, Len(@) - 1)])
               ELSE With([popup EXCEPT !.color =
                             IF @ = <<>> THEN @ ELSE SubSeq(@, 1, Len(@) - 1)])
          [] IsChar(key) ->
               IF popup.field = "Name"
               THEN With([popup EXCEPT !.name = Append(@, key)])
               ELSE With([popup EXCEPT !.color = Append(@, key)])
          [] OTHER -> s

\* ------------------------------------------------------------------ key routing
\* The match on the key that handle_key comes to when no popup is open.
match_key(s, key) ==
     CASE key = "q" -> [s EXCEPT !.running = FALSE]
       [] key = "h" -> Call(Call(s, "navigate_to", <<"Dashboard">>), "load_dashboard", <<>>)
       [] key = "p" -> Call(Call(s, "navigate_to", <<"Projects">>), "load_projects", <<>>)
       [] key = "t" -> [Call(Call(s, "navigate_to", <<"Tickrs">>), "load_tickrs", <<>>) EXCEPT
                            !.selected_tickr = None,
                            !.selected_tickr_project_name = None]
       [] key = "w" -> [Call(Call(s, "navigate_to", <<"WorkedProjects">>), "load_worked_projects", <<>>) EXCEPT
                            !.selected_project = None]
       [] key = "l" -> Call(Call(s, "navigate_to", <<"Timeline">>), "load_timeline", <<>>)
       [] key = "c" -> Call(Call(s, "navigate_to", <<"Categories">>), "load_categories", <<>>)
       [] key = "?" -> IF s.view = "Help" THEN Call(s, "go_back", <<>>) ELSE Call(s, "navigate_to", <<"Help">>)
       [] key = "/" -> IF s.view = "Projects"
                       THEN [s EXCEPT !.projects_search_active = TRUE] ELSE s
       [] key = "Tab" -> [s EXCEPT !.focus_mode =
                              IF @ = "TabBar" THEN "Content" ELSE "TabBar"]
       [] key = "BackTab" ->
            IF s.view = "WorkedProjects" THEN Call(s, "toggle_worked_range", <<>>)
            ELSE IF s.view = "Timeline" THEN Call(s, "toggle_timeline_range", <<>>)
            ELSE s
       [] key = "r" -> Call(s, "refresh_view_data", <<>>)
       [] key = "Left" -> IF s.focus_mode = "TabBar" THEN Call(s, "navigate_tab_left", <<>>) ELSE s
       [] key = "Right" -> IF s.focus_mode = "TabBar" THEN Call(s, "navigate_tab_right", <<>>) ELSE s
       [] key = "Up" -> IF s.focus_mode = "Content" THEN Call(s, "move_selection_up", <<>>) ELSE s
       [] key = "Down" -> IF s.focus_mode = "Content" THEN Call(s, "move_selection_down", <<>>) ELSE s
       [] key = "Enter" ->
            IF s.focus_mode = "TabBar" THEN Call(s, "activate_selected_tab", <<>>) ELSE Call(s, "open_selected", <<>>)
       [] key = " " -> Call(s, "toggle_tickr", <<>>)
       [] key = "s" -> Call(s, "stop_running_tickr", <<>>)
       [] key = "g" -> Call(s, "go_to_project_from_tickr", <<>>)
       [] key = "Esc" -> Call(s, "go_back", <<>>)
       [] key = "n" ->
            IF s.view \in {"Projects", "ProjectTickrs"} THEN Call(s, "open_new_tickr_popup", <<>>)
            ELSE IF s.view = "Categories" THEN Call(s, "open_new_category_popup", <<>>)
            ELSE s
       [] key = "e" -> Call(s, "open_edit_popup", <<>>)
       [] OTHER -> s

\* handle_key without the routing to the open popup.
handle_projects_search_key(s, key) ==
    IF s.view # "Projects" THEN [s EXCEPT !.projects_search_active = FALSE]
    ELSE CASE key = "Esc" ->
                Call([s EXCEPT !.projects_search_active = FALSE,
                               !.projects_search_query = <<>>],
                     "load_projects", <<>>)
           [] key = "Enter" ->
                Call([s EXCEPT !.projects_search_active = FALSE], "load_projects", <<>>)
           [] key \in {"Backspace", "Delete"} ->
                Call([s EXCEPT !.projects_search_query =
                                  SubSeq(@, 1, saturating_sub(Len(@), 1))],
                     "load_projects", <<>>)
           [] IsChar(key) ->
                Call([s EXCEPT !.projects_search_query = Append(@, key)],
                     "load_projects", <<>>)
           [] OTHER -> s

handle_key_unrouted(s, key) == Call(s, "match_key", <<key>>)

\* handle_key as it would be if the search field did not take the keys.
handle_key_past_search(s, key) ==
    IF IsSome(s.edit_popup) THEN Call(s, "handle_edit_key", <<key>>)
    ELSE IF IsSome(s.new_category_popup) THEN Call(s, "handle_new_category_key", <<key>>)
    ELSE IF IsSome(s.new_tickr_popup) THEN Call(s, "handle_new_tickr_key", <<key>>)
    ELSE Call(s, "match_key", <<key>>)

handle_key(s, key) ==
    IF IsSome(s.edit_popup) THEN Call(s, "handle_edit_key", <<key>>)
    ELSE IF IsSome(s.new_category_popup) THEN Call(s, "handle_new_category_key", <<key>>)
    ELSE IF IsSome(s.new_tickr_popup) THEN Call(s, "handle_new_tickr_key", <<key>>)
    ELSE IF s.projects_search_active THEN Call(s, "handle_projects_search_key", <<key>>)
    ELSE Call(s, "match_key", <<key>>)

\* update(event): event is "Tick" or a key.
\* update as it would be if an open popup held the ticks back.
update_paused_by_popup(s, event) ==
    LET covered == IsSome(s.edit_popup) \/ IsSome(s.new_category_popup)
                   \/ IsSome(s.new_tickr_popup)
        handled == IF event = "Tick"
                   THEN (IF IsSome(s.running_tickr) /\ ~covered
                         THEN Call(s, "refresh_running_tickrs", <<>>) ELSE s)
                   ELSE Call(s, "handle_key", <<event>>)
    IN IF IsSome(handled.running_tickr) /\ ~(event = "Tick" /\ covered)
       THEN Call(handled, "refresh_view_data", <<>>) ELSE handled

\* update as it would be if every Tick refreshed the running tickrs, whether a
\* running id is cached or not.
update_refreshing_every_tick(s, event) ==
    LET handled == IF event = "Tick"
                   THEN Call(s, "refresh_running_tickrs", <<>>)
                   ELSE Call(s, "handle_key", <<event>>)
    IN IF IsSome(handled.running_tickr) THEN Call(handled, "refresh_view_data", <<>>) ELSE handled

update(s, event) ==
    LET handled == IF event = "Tick"
                   THEN (IF IsSome(s.running_tickr) THEN Call(s, "refresh_running_tickrs", <<>>) ELSE s)
                   ELSE Call(s, "handle_key", <<event>>)
    IN IF IsSome(handled.running_tickr) THEN Call(handled, "refresh_view_data", <<>>) ELSE handled

\* Calls between handlers go through one dispatcher, so that every handler
\* is written once; Call(s, "f", <<x>>) is self.f(x) on the state s.
Call(s, f, args) ==
    CASE f = "refresh_categories_for_tickrs" -> refresh_categories_for_tickrs(s)
      [] f = "refresh_project_summaries" -> refresh_project_summaries(s)
      [] f = "load_projects" -> load_projects(s)
      [] f = "load_worked_projects" -> load_worked_projects(s)
      [] f = "load_tickrs" -> load_tickrs(s)
      [] f = "load_timeline" -> load_timeline(s)
      [] f = "load_categories" -> load_categories(s)
      [] f = "load_project_tickrs" -> load_project_tickrs(s)
      [] f = "load_dashboard" -> load_dashboard(s)
      [] f = "refresh_tickr_detail" -> refresh_tickr_detail(s)
      [] f = "load_content_for_view" -> load_content_for_view(s)
      [] f = "refresh_view_data" -> refresh_view_data(s)
      [] f = "refresh_running_tickrs" -> refresh_running_tickrs(s)
      [] f = "go_back" -> go_back(s)
      [] f = "navigate_tab_left" -> navigate_tab_left(s)
      [] f = "navigate_tab_right" -> navigate_tab_right(s)
      [] f = "activate_selected_tab" -> activate_selected_tab(s)
      [] f = "move_selection_up" -> move_selection_up(s)
      [] f = "move_selection_down" -> move_selection_down(s)
      [] f = "toggle_tickr" -> toggle_tickr(s)
      [] f = "open_selected_project" -> open_selected_project(s)
      [] f = "open_selected_worked_project" -> open_selected_worked_project(s)
      [] f = "open_selected_tickr" -> open_selected_tickr(s)
      [] f = "open_selected" -> open_selected(s)
      [] f = "go_to_project_from_tickr" -> go_to_project_from_tickr(s)
      [] f = "stop_running_tickr" -> stop_running_tickr(s)
      [] f = "toggle_worked_range" -> toggle_worked_range(s)
      [] f = "toggle_timeline_range" -> toggle_timeline_range(s)
      [] f = "open_edit_popup" -> open_edit_popup(s)
      [] f = "apply_edit_popup" -> apply_edit_popup(s)
      [] f = "open_new_category_popup" -> open_new_category_popup(s)
      [] f = "apply_new_category_popup" -> apply_new_category_popup(s)
      [] f = "handle_edit_key" -> handle_edit_key(s, args[1])
      [] f = "handle_new_category_key" -> handle_new_category_key(s, args[1])
      [] f = "handle_projects_search_key" -> handle_projects_search_key(s, args[1])
      [] f = "open_new_tickr_popup" -> open_new_tickr_popup(s)
      [] f = "apply_new_tickr_popup" -> apply_new_tickr_popup(s)
      [] f = "navigate_to" -> navigate_to(s, args[1])
      [] f = "go_to_project_by_id" -> go_to_project_by_id(s, args[1], args[2])
      [] f = "handle_new_tickr_key" -> handle_new_tickr_key(s, args[1])
      [] f = "match_key" -> match_key(s, args[1])
      [] f = "handle_key" -> handle_key(s, args[1])
      [] f = "update" -> update(s, args[1])

\* ------------------------------------------------------------------ command line
\* '#' and six hex digits, in either case.
is_valid_hex(s) ==
    /\ s # <<>>
    /\ s[1] = "#"
    /\ Len(s) = 7
    /\ \A k \in 2..Len(s) : is_ascii_hexdigit(s[k])

\* The colours random_color picks from.
PALETTE ==
    {<<"#", "F", "F", "5", "7", "3", "3">>,
     <<"#", "3", "3", "F", "F", "5", "7">>,
     <<"#", "3", "3", "5", "7", "F", "F">>,
     <<"#", "F", "3", "3", "3", "F", "F">>,
     <<"#", "3", "3", "F", "F", "F", "5">>,
     <<"#", "F", "5", "F", "F", "3", "3">>,
     <<"#", "F", "F", "3", "3", "A", "8">>,
     <<"#", "A", "8", "3", "3", "F", "F">>,
     <<"#", "3", "3", "F", "F", "A", "8">>,
     <<"#", "F", "F", "A", "8", "3", "3">>,
     <<"#", "F", "F", "3", "3", "8", "0">>,
     <<"#", "8", "0", "3", "3", "F", "F">>,
     <<"#", "3", "3", "F", "F", "8", "0">>,
     <<"#", "F", "F", "8", "0", "3", "3">>}

\* The category command: a colour that is given must be valid and is stored
\* as given, a colour that is not given is the one random_color picked; the
\* insert fails on a name the table has.
handle_category_add(name, color_opt, random, db) ==
    IF IsSome(color_opt) /\ ~is_valid_hex(Unwrap(color_opt)) THEN db
    ELSE LET color == IF IsSome(color_opt) THEN Unwrap(color_opt) ELSE random
         IN IF NameTaken(name, db) THEN db ELSE create_category(name, color, db)

\* The projects of that name: the name is unique, so none or one.
query_project_by_name(name, db) == SelectSeq(db.projects, LAMBDA p : p.name = name)

\* The task switch and task start commands: the task of that description in
\* the project of that name is started, after the first task of the same
\* project that has an open interval has been stopped.
handle_task_switch(project, description, db) ==
    LET projects == query_project_by_name(project, db)
    IN IF projects = <<>> THEN db
       ELSE
        LET tickrs == query_tickr_by_project_id(projects[1].id, db)
            at == Position({k \in 1..Len(tickrs) : tickrs[k].description = description})
            stop == Position({k \in 1..Len(tickrs) :
                                 \E i \in 1..Len(tickrs[k].intervals) :
                                     tickrs[k].intervals[i].end_time = None})
        IN IF at = 0 THEN db
           ELSE start_tickr(tickrs[at].id,
                            IF stop # 0 THEN end_tickr(tickrs[stop].id, db) ELSE db)

\* ------------------------------------------------------------------ construction
\* App::new(db); fail is the set of positions of the Store calls that fail.
new(db, fail) ==
    LET c1 == Called([calls |-> <<>>, fail |-> fail], "query_tickr")
        tickrs == IF Failing([calls |-> <<>>, fail |-> fail]) THEN <<>> ELSE query_tickr_all(db)
        c2 == Called(c1, "query_projects")
        projects == IF Failing(c1) THEN <<>> ELSE query_projects(db)
        first == Position({k \in 1..Len(tickrs) : LastOpen(tickrs[k])})
        app0 == [running |-> TRUE,
                 running_tickr |-> IF first = 0 THEN None ELSE Some(tickrs[first].id),
                 db |-> db,
                 view |-> "Dashboard",
                 view_history |-> <<>>,
                 projects |-> projects,
                 worked_projects |-> <<>>,
                 tickrs |-> tickrs,
                 categories_list |-> <<>>,
                 status |-> None,
                 selected_project_index |-> 0,
                 selected_project |-> None,
                 selected_worked_project_index |-> 0,
                 selected_tickr_index |-> 0,
                 selected_tickr |-> None,
                 selected_tickr_project_name |-> None,
                 selected_category_index |-> 0,
                 tickr_detail_parent |-> "Tickrs",
                 project_summaries |-> << >>,
                 categories |-> {},
                 worked_range |-> "Today",
                 timeline_range |-> "Day",
                 focus_mode |-> "Content",
                 selected_tab_index |-> 0,
                 projects_search_query |-> <<>>,
                 projects_search_active |-> FALSE,
                 edit_popup |-> None,
                 new_category_popup |-> None,
                 new_tickr_popup |-> None,
                 calls |-> c2.calls,
                 fail |-> fail,
                 panic |-> FALSE]
    IN Call(Call(app0, "refresh_categories_for_tickrs", <<>>), "refresh_project_summaries", <<>>)

\* ------------------------------------------------------------------ state
VARIABLES
    app,        \* the App: its fields, db included
    calls,      \* the Store calls issued by the last update (or by App::new)
    fault_budget, \* Store calls that may still fail during this run
    panicked,   \* the process has panicked
    events      \* events handled so far

vars == <<app, calls, fault_budget, panicked, events>>

\* The App's fields of a handler's result.
AppOf(s) ==
    [running |-> s.running, running_tickr |-> s.running_tickr, db |-> s.db,
     view |-> s.view, view_history |-> s.view_history, projects |-> s.projects,
     worked_projects |-> s.worked_projects, tickrs |-> s.tickrs,
     categories_list |-> s.categories_list, status |-> s.status,
     selected_project_index |-> s.selected_project_index,
     selected_project |-> s.selected_project,
     selected_worked_project_index |-> s.selected_worked_project_index,
     selected_tickr_index |-> s.selected_tickr_index,
     selected_tickr |-> s.selected_tickr,
     selected_tickr_project_name |-> s.selected_tickr_project_name,
     selected_category_index |-> s.selected_category_index,
     tickr_detail_parent |-> s.tickr_detail_parent,
     project_summaries |-> s.project_summaries, categories |-> s.categories,
     worked_range |-> s.worked_range, timeline_range |-> s.timeline_range,
     focus_mode |-> s.focus_mode, selected_tab_index |-> s.selected_tab_index,
     projects_search_query |-> s.projects_search_query,
     projects_search_active |-> s.projects_search_active,
     edit_popup |-> s.edit_popup, new_category_popup |-> s.new_category_popup,
     new_tickr_popup |-> s.new_tickr_popup]

\* The App at the start of an update in which the calls at positions fail fail.
Entering(a, fail) ==
    [running |-> a.running, running_tickr |-> a.running_tickr, db |-> a.db,
     view |-> a.view, view_history |-> a.view_history, projects |-> a.projects,
     worked_projects |-> a.worked_projects, tickrs |-> a.tickrs,
     categories_list |-> a.categories_list, status |-> a.status,
     selected_project_index |-> a.selected_project_index,
     selected_project |-> a.selected_project,
     selected_worked_project_index |-> a.selected_worked_project_index,
     selected_tickr_index |-> a.selected_tickr_index,
     selected_tickr |-> a.selected_tickr,
     selected_tickr_project_name |-> a.selected_tickr_project_name,
     selected_category_index |-> a.selected_category_index,
     tickr_detail_parent |-> a.tickr_detail_parent,
     project_summaries |-> a.project_summaries, categories |-> a.categories,
     worked_range |-> a.worked_range, timeline_range |-> a.timeline_range,
     focus_mode |-> a.focus_mode, selected_tab_index |-> a.selected_tab_index,
     projects_search_query |-> a.projects_search_query,
     projects_search_active |-> a.projects_search_active,
     edit_popup |-> a.edit_popup, new_category_popup |-> a.new_category_popup,
     new_tickr_popup |-> a.new_tickr_popup,
     calls |-> <<>>, fail |-> fail, panic |-> FALSE]

\* The calls of the update that were made to fail.
Failed(s) == Cardinality(s.fail \cap (1..Len(s.calls)))

\* The failure patterns of one update: no call fails, or (while the run's
\* budget lasts) calls that are actually issued fail.
RECURSIVE FailSets(_, _, _, _)
FailSets(a, event, fail, budget) ==
    {fail} \cup
    (IF budget = 0 THEN {}
     ELSE LET top == IF fail = {} THEN 0 ELSE CHOOSE i \in fail : \A j \in fail : j <= i
              issued == Len(Call(Entering(a, fail), "update", <<event>>).calls)
          IN UNION {FailSets(a, event, fail \cup {i}, budget - 1) : i \in (top + 1)..issued})

RECURSIVE NewFailSets(_, _, _)
NewFailSets(db, fail, budget) ==
    {fail} \cup
    (IF budget = 0 THEN {}
     ELSE LET top == IF fail = {} THEN 0 ELSE CHOOSE i \in fail : \A j \in fail : j <= i
              issued == Len(new(db, fail).calls)
          IN UNION {NewFailSets(db, fail \cup {i}, budget - 1) : i \in (top + 1)..issued})

\* ------------------------------------------------------------------ initial stores
InitProjects == [k \in 1..NumProjects |-> [id |-> k, name |-> ProjectName(k)]]

InitEntries ==
    <<[id |-> 1, project_id |-> 1, description |-> <<"a">>, category_id |-> Some(1)],
      [id |-> 2, project_id |-> 1, description |-> <<"a">>, category_id |-> None]>>

InitCategories ==
    <<[id |-> 1, name |-> <<"x">>, color |-> <<"#", "F", "F", "5", "7", "3", "3">>]>>

\* At most one interval, on either task, started at 0: open, or closed at 1.
InitIntervals ==
    {<<>>} \cup
    {<<[id |-> 1, entry_id |-> e, start_time |-> 0, end_time |-> end]>> :
        e \in {1, 2}, end \in {None, Some(MaxTime)}}

InitStores ==
    {[projects |-> InitProjects, entries |-> InitEntries,
      categories |-> InitCategories, intervals |-> i] : i \in InitIntervals}

\* App::new on one of the initial stores, of which at most faults calls fail.
\* The run starts from the App s, with faults Store calls that may fail.
Started(s, faults) ==
    /\ app = AppOf(s)
    /\ calls = s.calls
    /\ fault_budget = faults - Failed(s)
    /\ panicked = FALSE
    /\ events = 0

Start(faults) ==
    \E db \in InitStores : \E fail \in NewFailSets(db, {}, faults) :
        Started(new(db, fail), faults)

\* Every Store call succeeds.
Init == Start(0)

\* Store calls may fail, at most MaxFailures of them during the run.
InitFaulty == Start(MaxFailures)

\* ------------------------------------------------------------------ steps
LabelChars == {"a", " "}
ColorChars == {"#", "f", "F", " "}

\* A text field holds at most max characters, all of them in chars.
Typed(text, max, chars) ==
    /\ Len(text) <= max
    /\ \A k \in 1..Len(text) : text[k] \in chars

Bounded(s) ==
    /\ Len(s.db.entries) <= MaxTickrs
    /\ Len(s.db.intervals) <= MaxIntervals
    /\ Len(s.db.categories) <= MaxCategories
    /\ Len(s.view_history) <= MaxHistory
    /\ Typed(s.projects_search_query, MaxLabelLen, LabelChars)
    /\ IsSome(s.new_tickr_popup) =>
          Typed(Unwrap(s.new_tickr_popup).label, MaxLabelLen, LabelChars)
    /\ IsSome(s.edit_popup) =>
          Typed(Unwrap(s.edit_popup).label, MaxLabelLen, LabelChars)
    /\ IsSome(s.new_category_popup) =>
          /\ Typed(Unwrap(s.new_category_popup).name, MaxLabelLen, LabelChars)
          /\ Typed(Unwrap(s.new_category_popup).color, MaxColorLen, ColorChars)

\* The event loop takes another event: the app is running.
Looping ==
    /\ app.running
    /\ ~panicked
    /\ events < MaxEvents

\* update returned s.
Taken(s) ==
    /\ Bounded(s)
    /\ app' = AppOf(s)
    /\ calls' = s.calls
    /\ fault_budget' = fault_budget - Failed(s)
    /\ panicked' = s.panic

\* One pass of the event loop: update(event).
Step(event) ==
    /\ events' = events + 1
    /\ \E fail \in FailSets(app, event, {}, fault_budget) :
          Taken(Call(Entering(app, fail), "update", <<event>>))

Tick == Looping /\ Step("Tick")
Quit == Looping /\ Step("q")
OpenDashboard == Looping /\ Step("h")
OpenProjects == Looping /\ Step("p")
OpenTickrs == Looping /\ Step("t")
OpenWorked == Looping /\ Step("w")
OpenTimeline == Looping /\ Step("l")
OpenCategories == Looping /\ Step("c")
ToggleHelp == Looping /\ Step("?")
ToggleFocus == Looping /\ Step("Tab")
ToggleRange == Looping /\ Step("BackTab")
Refresh == Looping /\ Step("r")
CycleTabLeft == Looping /\ Step("Left")
CycleTabRight == Looping /\ Step("Right")
MoveUp == Looping /\ Step("Up")
MoveDown == Looping /\ Step("Down")
Activate == Looping /\ Step("Enter")
ToggleTimer == Looping /\ Step(" ")
StopTimer == Looping /\ Step("s")
JumpToProject == Looping /\ Step("g")
Back == Looping /\ Step("Esc")
OpenNew == Looping /\ Step("n")
EditSelected == Looping /\ Step("e")
Search == Looping /\ Step("/")
TypeChar == Looping /\ Step("a")
Backspace == Looping /\ Step("Backspace")

Next ==
    \/ Tick \/ Quit \/ OpenDashboard \/ OpenProjects \/ OpenTickrs \/ OpenWorked
    \/ OpenTimeline \/ OpenCategories \/ ToggleHelp \/ ToggleFocus \/ ToggleRange
    \/ Refresh \/ CycleTabLeft \/ CycleTabRight \/ MoveUp \/ MoveDown \/ Activate
    \/ ToggleTimer \/ StopTimer \/ JumpToProject \/ Back \/ OpenNew \/ TypeChar
    \/ Backspace \/ EditSelected

\* The whole keyboard over a store whose calls all succeed.
Spec == Init /\ [][Next]_vars

\* The keys that reach and drive the timer, over a store whose calls may fail.
NextFaulty ==
    \/ Tick \/ OpenProjects \/ OpenTickrs \/ MoveUp \/ MoveDown
    \/ Activate \/ ToggleTimer \/ StopTimer \/ Back

SpecFaulty == InitFaulty /\ [][NextFaulty]_vars

\* ------------------------------------------------------------------ opening runs
\* The store of a first start: the schema and no rows.
EmptyStore == [projects |-> <<>>, entries |-> <<>>, categories |-> <<>>, intervals |-> <<>>]

InitOpening ==
    \E db \in InitStores \cup {EmptyStore} : Started(new(db, {}), MaxFailures)

\* The keys that lead to the views of the popups, ask for a popup and leave it.
NextOpening ==
    \/ Tick \/ OpenProjects \/ OpenTickrs \/ OpenCategories \/ Activate
    \/ OpenNew \/ EditSelected \/ TypeChar \/ Back

SpecOpening == InitOpening /\ [][NextOpening]_vars

\* ------------------------------------------------------------------ start-up runs
\* What is left when main returns the error of db::init: no App, no loop.
NoApp == [running |-> FALSE]

\* main: db::init either fails, and main returns its error before an App is
\* built, or hands the connection to App::new, whose Store calls may all
\* fail; the loop then runs over a Store that answers.
InitStartUp ==
    \/ /\ app = NoApp
       /\ calls = <<>>
       /\ fault_budget = 0
       /\ panicked = FALSE
       /\ events = 0
    \/ \E db \in InitStores \cup {EmptyStore} :
          \E fail \in NewFailSets(db, {}, MaxStartFailures) :
             Started(new(db, fail), Failed(new(db, fail)))

\* The first keys of a session.
NextStartUp == Tick \/ OpenProjects \/ OpenTickrs \/ Refresh \/ MoveDown

SpecStartUp == InitStartUp /\ [][NextStartUp]_vars

\* ------------------------------------------------------------------ command runs
\* The names and the colours given to the category command.
CommandNames == {<<"a">>, <<"x">>}

CommandColors ==
    {<<"#", "F", "F", "F", "F", "F", "F">>, <<"#", "f", "f", "f", "f", "f", "f">>,
     <<"#", "f", "F", "f", "F", "f", "F">>, <<"f", "f", "f", "f", "f", "f">>,
     <<"#", "f", "f", "f", "f", "f">>}

\* The category command run on the Store of a session.
CategoryAdd ==
    /\ Len(app.db.categories) < MaxCategories
    /\ \E name \in CommandNames :
       \E color_opt \in {None} \cup {Some(color) : color \in CommandColors} :
       \E random \in PALETTE :
          app' = [app EXCEPT !.db = handle_category_add(name, color_opt, random, @)]
    /\ UNCHANGED <<calls, fault_budget, panicked, events>>

\* The command, and the keys that show the categories.
NextCommand == CategoryAdd \/ OpenCategories \/ MoveDown \/ Refresh \/ Back

SpecCommand == Init /\ [][NextCommand]_vars

\* ------------------------------------------------------------------ summary runs
\* The stores the summaries are computed from: the second task in either
\* project, and up to MaxStoredIntervals intervals on the two tasks, each
\* open or closed, closed before, at or after its start (a clock set back
\* between the start and the stop), at most one of them open.
SummaryEntries ==
    {<<[id |-> 1, project_id |-> 1, description |-> <<"a">>, category_id |-> Some(1)],
       [id |-> 2, project_id |-> p, description |-> <<"a">>, category_id |-> None]>> :
        p \in 1..NumProjects}

IntervalTimes ==
    [entry_id : {1, 2}, start_time : 0..MaxTime,
     end_time : {None} \cup {Some(end) : end \in 0..MaxTime}]

SummaryIntervals ==
    {[k \in 1..Len(rows) |->
         [id |-> k, entry_id |-> rows[k].entry_id, start_time |-> rows[k].start_time,
          end_time |-> rows[k].end_time]] :
        rows \in {r \in UNION {[1..n -> IntervalTimes] : n \in 0..MaxStoredIntervals} :
                     Cardinality({k \in 1..Len(r) : r[k].end_time = None}) <= 1}}

SummaryStores ==
    {[projects |-> InitProjects, entries |-> e, categories |-> InitCategories,
      intervals |-> i] : e \in SummaryEntries, i \in SummaryIntervals}

InitSummary == \E db \in SummaryStores : Started(new(db, {}), 0)

\* The keys that load the projects and drive the timer.
NextSummary == OpenProjects \/ OpenTickrs \/ ToggleTimer \/ StopTimer

SpecSummary == InitSummary /\ [][NextSummary]_vars

\* ------------------------------------------------------------------ popup runs
\* The App after one more key was handled, no call failing.
Key(s, key) == Call(Entering(AppOf(s), {}), "update", <<key>>)

\* The key sequences that open a popup from the start screen: c n opens the
\* NewCategory popup (a Tab names the category and moves to the colour), p n
\* the NewTickr popup of the Projects view, and t Enter e the EditTickr popup
\* of the first task.
NewCategoryOpened(db) == Key(Key(new(db, {}), "c"), "n")
NewCategoryNamed(db) == Key(Key(NewCategoryOpened(db), "a"), "Tab")
NewTickrOpened(db) == Key(Key(new(db, {}), "p"), "n")
EditOpened(db) == Key(Key(Key(new(db, {}), "t"), "Enter"), "e")

InitPopup ==
    \E db \in InitStores :
        \/ Started(NewCategoryOpened(db), MaxFailures)
        \/ Started(NewTickrOpened(db), MaxFailures)
        \/ Started(EditOpened(db), MaxFailures)

\* The keys a popup reacts to and the ticks that arrive under it, over a
\* store whose calls may fail.
NextPopup ==
    \/ Activate \/ Back \/ ToggleFocus \/ MoveUp \/ MoveDown
    \/ Backspace \/ TypeChar \/ ToggleTimer \/ Tick

SpecPopup == InitPopup /\ [][NextPopup]_vars

\* ------------------------------------------------------------------ search runs
\* The Projects view has just been opened; the keys that search it and the
\* keys that leave it and come back.
InitSearch == \E db \in InitStores : Started(Key(new(db, {}), "p"), 0)

NextSearch ==
    \/ Search \/ TypeChar \/ Backspace \/ Activate \/ Back
    \/ OpenDashboard \/ OpenProjects \/ OpenTickrs \/ OpenNew

SpecSearch == InitSearch /\ [][NextSearch]_vars

\* ------------------------------------------------------------------ cursor runs

\* Stores whose second task is in either project, so that the list of a project
\* can be shorter than the list of all tickrs.
CursorStores ==
    {[projects |-> InitProjects, entries |-> e, categories |-> InitCategories,
      intervals |-> i] : e \in SummaryEntries, i \in InitIntervals}

InitCursor == \E db \in CursorStores : Started(new(db, {}), 0)

NextCursor ==
    \/ OpenProjects \/ OpenTickrs \/ OpenWorked \/ MoveUp \/ MoveDown
    \/ Activate \/ StopTimer \/ Tick \/ Back

\* Moving the cursors and changing lists, over a store whose calls all succeed.
SpecCursor == InitCursor /\ [][NextCursor]_vars

\* ------------------------------------------------------------------ switch runs
\* The projects and the descriptions given to the task switch command.
CommandProjects == {"a", "b", "y"}
CommandDescriptions == {<<"a">>, <<"b">>}

\* The task switch command run on the Store of a session.
TaskSwitch ==
    /\ Len(app.db.intervals) < MaxIntervals
    /\ \E project \in CommandProjects : \E description \in CommandDescriptions :
          app' = [app EXCEPT !.db = handle_task_switch(project, description, @)]
    /\ UNCHANGED <<calls, fault_budget, panicked, events>>

\* The command, and the events that show its effect in the session.
NextSwitch == TaskSwitch \/ Tick \/ OpenTickrs \/ ToggleTimer

SpecSwitch == InitSummary /\ [][NextSwitch]_vars

\* ------------------------------------------------------------------ colour runs
\* The NewCategory popup with the name typed and the colour field in focus.
InitColor ==
    \E db \in InitStores :
        /\ db.intervals = <<>>
        /\ Started(NewCategoryNamed(db), 0)

\* The colour field is being edited.
EditingColor ==
    /\ app.running
    /\ ~panicked
    /\ IsSome(app.new_category_popup)

ColorKey(event) ==
    /\ UNCHANGED events
    /\ Taken(Call(Entering(app, {}), "update", <<event>>))

TypeHash == EditingColor /\ ColorKey("#")
TypeHexLower == EditingColor /\ ColorKey("f")
TypeHexUpper == EditingColor /\ ColorKey("F")
TypeBlank == EditingColor /\ ColorKey(" ")
CommitColor == EditingColor /\ ColorKey("Enter")

NextColor == TypeHash \/ TypeHexLower \/ TypeHexUpper \/ TypeBlank \/ CommitColor

SpecColor == InitColor /\ [][NextColor]_vars

\* ================================================================== properties
OpenIntervals(db) == {k \in 1..Len(db.intervals) : db.intervals[k].end_time = None}

\* The step is update(event) in which every Store call succeeds.
Returned(event) ==
    LET s == Call(Entering(app, {}), "update", <<event>>)
    IN app' = AppOf(s) /\ calls' = s.calls

\* Space reaches toggle_tickr with a task under the cursor.
ToggleTarget ==
    IF app.new_tickr_popup = None THEN current_tickr(app) ELSE None

\* ------------------------------------------------------------------ C1
\* C1: starting from a Store with at most one open interval, after any sequence
\* of update(event) calls in which any Store call (those of App::new included)
\* may fail, the Store holds at most one open interval across all tickrs.
C1_AtMostOneOpenInterval == Cardinality(OpenIntervals(app.db)) <= 1

\* ------------------------------------------------------------------ C2
\* C2: when Space toggles the tickr whose last interval is open and whose id is
\* the tracked running id, and the Store write succeeds, then afterwards that
\* tickr has no open interval and running_tickr is None.
C2_ToggleOnRunningClearsRunningId ==
    [][(/\ IsSome(ToggleTarget)
        /\ LastOpen(Unwrap(ToggleTarget))
        /\ app.running_tickr = Some(Unwrap(ToggleTarget).id)
        /\ Returned(" "))
       => /\ \A k \in OpenIntervals(app'.db) :
                app'.db.intervals[k].entry_id # Unwrap(ToggleTarget).id
          /\ app'.running_tickr = None]_vars

\* ------------------------------------------------------------------ C3
\* C3: when Space toggles a tickr T other than the tracked running tickr R and
\* every Store call succeeds, the Store calls start with end_tickr (on R) then
\* start_tickr (on T); afterwards exactly one interval is open in the whole
\* Store, it belongs to T, and running_tickr is T.
C3_SwitchLeavesOneOpenInterval ==
    [][(/\ IsSome(ToggleTarget)
        /\ IsSome(app.running_tickr)
        /\ Unwrap(app.running_tickr) # Unwrap(ToggleTarget).id
        /\ Returned(" "))
       => /\ Len(calls') >= 2
          /\ calls'[1].call = "end_tickr"
          /\ calls'[2].call = "start_tickr"
          /\ Cardinality(OpenIntervals(app'.db)) = 1
          /\ \A k \in OpenIntervals(app'.db) :
                app'.db.intervals[k].entry_id = Unwrap(ToggleTarget).id
          /\ app'.running_tickr = Some(Unwrap(ToggleTarget).id)]_vars

\* ------------------------------------------------------------------ C4
\* toggle_tickr must first stop another running tickr: a task is under the
\* cursor, it is not the tracked running one with an open interval, and a
\* running id is tracked.
MustStopFirst ==
    /\ IsSome(current_tickr(app))
    /\ IsSome(app.running_tickr)
    /\ ~(/\ LastOpen(Unwrap(current_tickr(app)))
         /\ Some(Unwrap(current_tickr(app)).id) = app.running_tickr)

\* toggle_tickr in which the first Store call, the stop step, fails.
ToggleWithFailedStop == Call(Entering(app, {1}), "toggle_tickr", <<>>)

\* C4: if the stop step of a toggle that must first stop another running tickr
\* fails, no start_tickr call is issued, and the Store's intervals, the running
\* id and the in-memory tickr list are the same as before the toggle.
C4_FailedStopAborts ==
    MustStopFirst =>
        /\ ToggleWithFailedStop.calls = <<[call |-> "end_tickr", ok |-> FALSE]>>
        /\ ToggleWithFailedStop.db.intervals = app.db.intervals
        /\ ToggleWithFailedStop.running_tickr = app.running_tickr
        /\ ToggleWithFailedStop.tickrs = app.tickrs

\* The last update was a toggle from the running tickr to another one whose
\* stop step failed, and the same toggle would have to stop it again.
C4_Witness ==
    /\ MustStopFirst
    /\ Unwrap(app.running_tickr) # Unwrap(current_tickr(app)).id
    /\ OpenIntervals(app.db) # {}
    /\ calls # <<>>
    /\ calls[1] = [call |-> "end_tickr", ok |-> FALSE]
    /\ ToggleWithFailedStop.status = Some("Failed to stop currently running task")

\* ------------------------------------------------------------------ C5
CursorOk(cursor, list) ==
    IF list = <<>> THEN cursor = 0 ELSE cursor < Len(list)

\* C5: in every state reached when update(event) returns, each cursor is below
\* the length of its list when the list is non-empty and is 0 when it is empty.
C5_CursorsInsideLists ==
    /\ CursorOk(app.selected_project_index, app.projects)
    /\ CursorOk(app.selected_tickr_index, app.tickrs)
    /\ CursorOk(app.selected_worked_project_index, app.worked_projects)
    /\ CursorOk(app.selected_category_index, app.categories_list)

\* ------------------------------------------------------------------ C6
\* The lists an update loads when it ends in view.
LoadsProjects(view) == view \in {"Dashboard", "Projects"}
LoadsTickrs(view) == view \in {"Dashboard", "Tickrs", "Timeline", "ProjectTickrs"}
LoadsWorked(view) == view = "WorkedProjects"
LoadsCategories(view) == view \in {"Dashboard", "Categories"}

\* The step reloads the lists of the view it ends in: a navigation key, a
\* refresh, a go_back, or a Tick while a tickr is tracked as running.
Reloaded ==
    /\ app.new_tickr_popup = None
    /\ \/ \E key \in {"h", "p", "t", "w", "l", "c", "r"} : Returned(key)
       \/ app.view_history # <<>> /\ Returned("Esc")
       \/ IsSome(app.running_tickr) /\ Returned("Tick")

Clamped(old, list) ==
    IF list = <<>> THEN 0
    ELSE IF old < Len(list) - 1 THEN old ELSE Len(list) - 1

\* C6: after every load of a list the cursor equals min(old cursor, new
\* length - 1), or 0 when the new list is empty.
C6_LoadClampsCursor ==
    [][Reloaded =>
        /\ LoadsProjects(app'.view) =>
              app'.selected_project_index =
                  Clamped(app.selected_project_index, app'.projects)
        /\ LoadsTickrs(app'.view) =>
              app'.selected_tickr_index =
                  Clamped(app.selected_tickr_index, app'.tickrs)
        /\ LoadsWorked(app'.view) =>
              app'.selected_worked_project_index =
                  Clamped(app.selected_worked_project_index, app'.worked_projects)
        /\ LoadsCategories(app'.view) =>
              app'.selected_category_index =
                  Clamped(app.selected_category_index, app'.categories_list)]_vars

\* ------------------------------------------------------------------ C7
\* The list and the cursor of a list-bearing view.
ListOf(s) ==
    CASE s.view = "Projects" -> s.projects
      [] s.view \in {"Tickrs", "ProjectTickrs"} -> s.tickrs
      [] s.view = "WorkedProjects" -> s.worked_projects
      [] s.view = "Categories" -> s.categories_list

CursorOf(s) ==
    CASE s.view = "Projects" -> s.selected_project_index
      [] s.view \in {"Tickrs", "ProjectTickrs"} -> s.selected_tickr_index
      [] s.view = "WorkedProjects" -> s.selected_worked_project_index
      [] s.view = "Categories" -> s.selected_category_index

ListBearing ==
    app.view \in {"Projects", "Tickrs", "ProjectTickrs", "WorkedProjects", "Categories"}

MovedDown == Call(Entering(app, {}), "move_selection_down", <<>>)
MovedUp == Call(Entering(app, {}), "move_selection_up", <<>>)

\* C7: in every list-bearing view whose list has length n > 0 and whose cursor
\* c is in 0..n-1, move_selection_down sets the cursor to (c+1) mod n and
\* move_selection_up to (c-1) mod n, and either followed by the other returns
\* the cursor to c; on an empty list both leave the cursor unchanged.
C7_MovesWrapAndInvert ==
    ListBearing =>
        LET n == Len(ListOf(app))
            c == CursorOf(app)
        IN /\ (n > 0 /\ c < n) =>
                 /\ CursorOf(MovedDown) = (c + 1) % n
                 /\ CursorOf(MovedUp) = (c + n - 1) % n
                 /\ CursorOf(Call(MovedDown, "move_selection_up", <<>>)) = c
                 /\ CursorOf(Call(MovedUp, "move_selection_down", <<>>)) = c
           /\ n = 0 =>
                 /\ CursorOf(MovedDown) = c
                 /\ CursorOf(MovedUp) = c

\* The cursor of the two-task list is on its last row, where a move down wraps
\* to the first row and a move up from the first row arrives.
C7_Witness ==
    /\ app.view = "Tickrs"
    /\ Len(app.tickrs) = 2
    /\ app.selected_tickr_index = 1
    /\ CursorOf(MovedDown) = 0
    /\ CursorOf(MovedUp) = 0
    /\ calls = <<>>

\* ------------------------------------------------------------------ C8
\* C8: in every state reached when update(event) returns, view TickrDetail has
\* selected_tickr set and view ProjectTickrs has selected_project set.
C8_ContextViewsHaveContext ==
    /\ app.view = "TickrDetail" => IsSome(app.selected_tickr)
    /\ app.view = "ProjectTickrs" => IsSome(app.selected_project)

\* ------------------------------------------------------------------ C9
\* C9: for any views X # Y, navigate_to(Y) from X followed by go_back() leaves
\* the view equal to X and the history stack as it was before navigate_to.
C9_GoBackUndoesNavigate ==
    \A view \in Views \ {app.view} :
        LET there == Call(Entering(app, {}), "navigate_to", <<view>>)
            back == Call(there, "go_back", <<>>)
        IN /\ there.view = view
           /\ there.view_history = Append(app.view_history, app.view)
           /\ back.view = app.view
           /\ back.view_history = app.view_history

\* From a view entered with a non-empty history, the round trip through every
\* other view is possible and pushes one entry.
C9_Witness ==
    /\ app.view = "Tickrs"
    /\ app.view_history = <<"Dashboard", "Projects">>
    /\ \A view \in Views \ {app.view} :
          Len(Call(Entering(app, {}), "navigate_to", <<view>>).view_history) = 3

\* ------------------------------------------------------------------ C10
\* C10: navigate_to(X) while the view is already X pushes nothing onto the
\* history stack and leaves the view and the tab index unchanged.
C10_NavigateToSameViewIsNoOp ==
    LET same == Call(Entering(app, {}), "navigate_to", <<app.view>>)
    IN /\ same.view_history = app.view_history
       /\ same.view = app.view
       /\ same.selected_tab_index = app.selected_tab_index

\* The tab cursor has been moved off the current view's tab, so a navigate_to
\* that synchronised it would change it.
C10_Witness ==
    /\ app.view = "Projects"
    /\ app.view_history # <<>>
    /\ TabOf(app.view) # 0
    /\ app.selected_tab_index # TabOf(app.view) - 1
\* ------------------------------------------------------------------ popups
PopupsOpen(a) ==
    (IF IsSome(a.edit_popup) THEN 1 ELSE 0)
    + (IF IsSome(a.new_category_popup) THEN 1 ELSE 0)
    + (IF IsSome(a.new_tickr_popup) THEN 1 ELSE 0)

\* The App after update(key), every Store call succeeding.
After(key) == Call(Entering(app, {}), "update", <<key>>)

\* C11: at most one of edit_popup, new_category_popup and new_tickr_popup is
\* set, in every reachable state and after any key pressed in it.
C11_AtMostOnePopup ==
    /\ PopupsOpen(app) <= 1
    /\ \A key \in Keys : PopupsOpen(After(key)) <= 1

\* The EditTickr popup is open over the detail view of a task.
C11_Witness == IsSome(app.edit_popup) /\ app.view = "TickrDetail"

\* update left the view, the history, the focus, the tab and the quit flag
\* of the state as they were.
Unmoved(s) ==
    /\ s.view = app.view
    /\ s.view_history = app.view_history
    /\ s.focus_mode = app.focus_mode
    /\ s.selected_tab_index = app.selected_tab_index
    /\ s.running = app.running

\* C12: while a popup is open, no key changes the view, the view history,
\* the focus mode, the tab index or the quit flag, whether the Store calls
\* of the update succeed or fail.
C12_PopupKeepsKeys ==
    PopupsOpen(app) >= 1 =>
        \A key \in Keys : \A fail \in FailSets(app, key, {}, MaxFailures) :
            Unmoved(Call(Entering(app, fail), "update", <<key>>))

\* Space, the timer key, went into the label of the open NewTickr popup.
C12_Witness ==
    /\ IsSome(app.new_tickr_popup)
    /\ Unwrap(app.new_tickr_popup).label = <<" ">>

\* The Store calls that write.
Writes ==
    {"create_tickr", "start_tickr", "end_tickr", "create_category",
     "update_tickr_details"}

WritesOf(s) == {k \in 1..Len(s.calls) : s.calls[k].call \in Writes}

\* The open popup holds a draft that Enter rejects: a NewCategory name that
\* is empty after trimming or a colour that does not normalize, or a NewTickr
\* label that is empty after trimming.
InvalidDraft ==
    \/ /\ IsSome(app.new_category_popup)
       /\ \/ trim(Unwrap(app.new_category_popup).name) = <<>>
          \/ normalize_hex_color(trim(Unwrap(app.new_category_popup).color)) = None
    \/ /\ IsSome(app.new_tickr_popup)
       /\ trim(Unwrap(app.new_tickr_popup).label) = <<>>

\* C13: Enter on a draft that fails validation issues no Store write, and
\* when update returns the popup is open with the draft unchanged and the
\* status message is set, whether or not a timer is running.
C13_RejectedDraftKeepsPopupAndStatus ==
    InvalidDraft =>
        /\ WritesOf(After("Enter")) = {}
        /\ After("Enter").new_category_popup = app.new_category_popup
        /\ After("Enter").new_tickr_popup = app.new_tickr_popup
        /\ IsSome(After("Enter").status)

\* ------------------------------------------------------------------ colours
\* Six hexadecimal digits, with or without one leading '#'.
PlainColor(text) ==
    \/ SixHexDigits(text)
    \/ text # <<>> /\ Head(text) = "#" /\ SixHexDigits(Tail(text))

\* '#' followed by the six digits of a plain colour in upper case.
Normalized(text) ==
    <<"#">> \o to_ascii_uppercase(IF Head(text) = "#" THEN Tail(text) ELSE text)

\* Enter on the NewCategory popup stores a category.
Accepted == Len(After("Enter").db.categories) = Len(app.db.categories) + 1

StoredColor == After("Enter").db.categories[Len(After("Enter").db.categories)].color

\* The colour typed into the open NewCategory popup.
TypedColor == Unwrap(app.new_category_popup).color

\* C14: the typed colour is accepted exactly when it is six hex digits with
\* or without one leading '#'; it is stored as '#' and the six digits in
\* upper case, and normalizing the stored value returns it unchanged.
C14_AcceptsExactlyPlainColors ==
    IsSome(app.new_category_popup) =>
        /\ Accepted <=> PlainColor(TypedColor)
        /\ Accepted =>
              /\ StoredColor = Normalized(TypedColor)
              /\ normalize_hex_color(StoredColor) = Some(StoredColor)

\* C14, amended: the same of the typed colour with the blanks around it
\* trimmed away.
C14_AcceptsExactlyTrimmedPlainColors ==
    IsSome(app.new_category_popup) =>
        /\ Accepted <=> PlainColor(trim(TypedColor))
        /\ Accepted =>
              /\ StoredColor = Normalized(trim(TypedColor))
              /\ normalize_hex_color(StoredColor) = Some(StoredColor)

\* A colour typed in mixed case behind a blank is about to be committed,
\* and is accepted.
C14_Witness ==
    /\ IsSome(app.new_category_popup)
    /\ TypedColor = <<" ", "f", "F", "f", "F", "f", "F">>
    /\ Accepted

\* ------------------------------------------------------------------ commits
\* The tickr id has an open interval in the store db.
Running(id, db) == \E k \in OpenIntervals(db) : db.intervals[k].entry_id = id

\* The update s issued the Store call name, and it succeeded (failed).
Succeeded(s, name) == \E k \in 1..Len(s.calls) : s.calls[k].call = name /\ s.calls[k].ok
Refused(s, name) == \E k \in 1..Len(s.calls) : s.calls[k].call = name /\ ~s.calls[k].ok

\* The NewTickr popup is open with start_now set and a label to commit,
\* while the tickr named by running_tickr is running.
StartNowDraft ==
    /\ IsSome(app.new_tickr_popup)
    /\ Unwrap(app.new_tickr_popup).start_now
    /\ trim(Unwrap(app.new_tickr_popup).label) # <<>>
    /\ IsSome(app.running_tickr)
    /\ Running(Unwrap(app.running_tickr), app.db)

\* C15: when Enter commits such a popup and the task is created, then either
\* the stop and the start both succeed, the running tickr is stopped and the
\* new task runs under the running id, or one of them fails and the running
\* tickr still runs under the running id.
C15_StartNowIsAtomic ==
    StartNowDraft =>
        \A fail \in FailSets(app, "Enter", {}, MaxFailures) :
            LET s == Call(Entering(app, fail), "update", <<"Enter">>)
                created == Len(s.db.entries)
            IN Succeeded(s, "create_tickr") =>
                  IF Refused(s, "end_tickr") \/ Refused(s, "start_tickr")
                  THEN /\ Running(Unwrap(app.running_tickr), s.db)
                       /\ s.running_tickr = app.running_tickr
                  ELSE /\ ~Running(Unwrap(app.running_tickr), s.db)
                       /\ Running(created, s.db)
                       /\ s.running_tickr = Some(created)

\* C16: when a Store write fails while Enter commits a popup, the popup is
\* open afterwards with its draft unchanged.
C16_FailedWriteKeepsPopup ==
    PopupsOpen(app) >= 1 =>
        \A fail \in FailSets(app, "Enter", {}, MaxFailures) :
            LET s == Call(Entering(app, fail), "update", <<"Enter">>)
            IN (\E name \in Writes : Refused(s, name)) =>
                  /\ s.edit_popup = app.edit_popup
                  /\ s.new_category_popup = app.new_category_popup
                  /\ s.new_tickr_popup = app.new_tickr_popup

\* ------------------------------------------------------------------ failures
\* The status messages that report a failed Store call.
FailureMessages ==
    {"Failed to create category", "Failed to create task", "Failed to load categories",
     "Failed to load project summaries", "Failed to load projects",
     "Failed to load tickrs", "Failed to load worked projects",
     "Failed to refresh task", "Failed to start task",
     "Failed to stop currently running task", "Failed to stop running task",
     "Failed to stop task", "Failed to update task"}

\* C17: when a Store call failed during the update that led to the state,
\* the status message is set and reports a failure.
C17_FailureIsReported ==
    (events > 0 /\ \E k \in 1..Len(calls) : ~calls[k].ok) =>
        /\ IsSome(app.status)
        /\ Unwrap(app.status) \in FailureMessages

\* ------------------------------------------------------------------ summaries
\* The rows of the entries table of project p, and the rows of the intervals
\* table of the entry e.
EntriesOf(p, db) == {e \in 1..Len(db.entries) : db.entries[e].project_id = p}
IntervalsOf(e, db) == {k \in 1..Len(db.intervals) : db.intervals[k].entry_id = db.entries[e].id}

\* The entry has no interval, or its last interval is open.
IsOpen(e, db) ==
    \/ IntervalsOf(e, db) = {}
    \/ \E k \in IntervalsOf(e, db) :
          /\ \A j \in IntervalsOf(e, db) : j <= k
          /\ db.intervals[k].end_time = None

\* The closed intervals of project p that last longer than nothing.
Counted(p, db) ==
    {k \in 1..Len(db.intervals) :
        /\ \E e \in EntriesOf(p, db) : k \in IntervalsOf(e, db)
        /\ db.intervals[k].end_time # None
        /\ Unwrap(db.intervals[k].end_time) - db.intervals[k].start_time > 0}

RECURSIVE Duration(_, _)
Duration(rows, db) ==
    IF rows = {} THEN 0
    ELSE LET k == CHOOSE r \in rows : TRUE
         IN Unwrap(db.intervals[k].end_time) - db.intervals[k].start_time
            + Duration(rows \ {k}, db)

\* C18: the summary computed from the tickrs of a store has, for each
\* project with tickrs, open = its tickrs without intervals or with an open
\* last interval, ended = its other tickrs, and total_seconds = the sum of
\* end - start over its closed intervals of positive duration.
C18_SummaryCountsAndTotals ==
    LET summaries == project_summary(query_tickr_all(app.db))
    IN /\ DOMAIN summaries = {p \in 1..NumProjects : EntriesOf(p, app.db) # {}}
       /\ \A p \in DOMAIN summaries :
             /\ summaries[p].open =
                   Cardinality({e \in EntriesOf(p, app.db) : IsOpen(e, app.db)})
             /\ summaries[p].ended =
                   Cardinality({e \in EntriesOf(p, app.db) : ~IsOpen(e, app.db)})
             /\ summaries[p].open + summaries[p].ended =
                   Cardinality(EntriesOf(p, app.db))
             /\ summaries[p].total_seconds = Duration(Counted(p, app.db), app.db)

\* The projects were loaded from a store in which the only task of project 1
\* has a closed interval of MaxTime seconds and an open one after it: ended
\* 0, open 1, total MaxTime.
C18_Witness ==
    /\ app.view = "Projects"
    /\ EntriesOf(1, app.db) = {1}
    /\ Len(app.db.intervals) = 2
    /\ app.db.intervals[1] =
          [id |-> 1, entry_id |-> 1, start_time |-> 0, end_time |-> Some(MaxTime)]
    /\ app.db.intervals[2].entry_id = 1
    /\ app.db.intervals[2].end_time = None
    /\ 1 \in DOMAIN app.project_summaries
    /\ app.project_summaries[1] = [total_seconds |-> MaxTime, ended |-> 0, open |-> 1]

\* ------------------------------------------------------------------ fresh summaries
\* The Store calls of the last update that load projects or tickrs.
Loads == {"query_projects", "query_tickr"}

\* C19: after an update whose Store calls all succeeded and that loaded
\* projects or tickrs, the cached summaries are the summaries computed from
\* the tickrs of the Store.
C19_LoadedSummariesAreFresh ==
    [][(/\ \A k \in 1..Len(calls') : calls'[k].ok
        /\ \E k \in 1..Len(calls') : calls'[k].call \in Loads)
       => app'.project_summaries = project_summary(query_tickr_all(app'.db))]_vars

\* ------------------------------------------------------------------ stop running
\* The rows of the entries table whose last interval is open.
RunningEntries(db) ==
    {e \in 1..Len(db.entries) : IntervalsOf(e, db) # {} /\ IsOpen(e, db)}

\* C20: key s reaching stop_running (no popup open, no search being typed),
\* a running tickr in the Store and every Store call succeeding leaves no interval of the first running tickr
\* open, shows ProjectTickrs for that tickr's project with the project's
\* tickrs listed, and puts the tickr cursor on the stopped tickr.
C20_StopRunningShowsStoppedTickr ==
    LET s == After("s")
        first == Position(RunningEntries(app.db))
    IN (/\ PopupsOpen(app) = 0
        /\ ~app.projects_search_active
        /\ first # 0
        /\ \A k \in 1..Len(s.calls) : s.calls[k].ok)
       => LET tickr == app.db.entries[first]
          IN /\ ~Running(tickr.id, s.db)
             /\ s.view = "ProjectTickrs"
             /\ s.selected_project # None
             /\ Unwrap(s.selected_project).id = tickr.project_id
             /\ s.tickrs = query_tickr_by_project_id(tickr.project_id, s.db)
             /\ s.selected_tickr_index < Len(s.tickrs)
             /\ s.tickrs[s.selected_tickr_index + 1].id = tickr.id

\* Key s has just stopped the second tickr of its project from another view:
\* the project's tickrs are shown with the cursor on the second one.
C20_Witness ==
    /\ \E k \in 1..Len(calls) : calls[k].call = "end_tickr" /\ calls[k].ok
    /\ \E k \in 1..Len(calls) : calls[k].call = "query_project_by_id" /\ calls[k].ok
    /\ \A k \in 1..Len(calls) : calls[k].ok
    /\ app.view = "ProjectTickrs"
    /\ app.view_history # <<>>
    /\ app.selected_tickr_index = 1
    /\ RunningEntries(app.db) = {}

\* ------------------------------------------------------------------ tab bar
\* C21: an update that changes the view to one that has a tab leaves
\* selected_tab_index at the tab-bar position of the new view, ProjectTickrs
\* and TickrDetail counting as the Tickrs tab.
C21_TabFollowsView ==
    [][(app'.view # app.view /\ TabOf(app'.view) # 0)
       => app'.selected_tab_index = TabOf(app'.view) - 1]_vars

\* ------------------------------------------------------------------ going back
\* C22: go_back with an empty history changes neither the view, the history,
\* the lists, the cursors, the context fields nor the status message.
C22_BackOnEmptyHistoryIsNoOp ==
    LET s == Call(Entering(app, {}), "go_back", <<>>)
    IN app.view_history = <<>>
       => /\ s.view = app.view
          /\ s.view_history = app.view_history
          /\ s.projects = app.projects
          /\ s.worked_projects = app.worked_projects
          /\ s.tickrs = app.tickrs
          /\ s.categories_list = app.categories_list
          /\ s.selected_project_index = app.selected_project_index
          /\ s.selected_worked_project_index = app.selected_worked_project_index
          /\ s.selected_tickr_index = app.selected_tickr_index
          /\ s.selected_category_index = app.selected_category_index
          /\ s.selected_tab_index = app.selected_tab_index
          /\ s.selected_project = app.selected_project
          /\ s.selected_tickr = app.selected_tickr
          /\ s.selected_tickr_project_name = app.selected_tickr_project_name
          /\ s.tickr_detail_parent = app.tickr_detail_parent
          /\ s.status = app.status

\* ------------------------------------------------------------------ opening popups
\* The three popups of a state.
PopupsOf(s) == <<s.edit_popup, s.new_category_popup, s.new_tickr_popup>>

\* The state after a request to open a popup, every Store call succeeding.
Request(open) == Call(Entering(app, {}), open, <<>>)

\* C23: an open EditTickr popup is shown over TickrDetail, an open
\* NewCategory popup over Categories, an open NewTickr popup over Projects
\* or ProjectTickrs and with a project to choose; a request to open a popup
\* from any other view, or NewTickr with no project in the Store, leaves
\* the popups as they are.
C23_PopupsOpenOnlyWhereTheyBelong ==
    /\ IsSome(app.edit_popup) => app.view = "TickrDetail"
    /\ IsSome(app.new_category_popup) => app.view = "Categories"
    /\ IsSome(app.new_tickr_popup) =>
          /\ app.view \in {"Projects", "ProjectTickrs"}
          /\ Unwrap(app.new_tickr_popup).projects # <<>>
    /\ app.view # "TickrDetail" =>
          PopupsOf(Request("open_edit_popup")) = PopupsOf(app)
    /\ app.view # "Categories" =>
          PopupsOf(Request("open_new_category_popup")) = PopupsOf(app)
    /\ (app.view \notin {"Projects", "ProjectTickrs"} \/ app.db.projects = <<>>) =>
          PopupsOf(Request("open_new_tickr_popup")) = PopupsOf(app)

\* Key n on the Projects view of a Store without projects was refused with a
\* message and no popup.
C23_Witness ==
    /\ app.db.projects = <<>>
    /\ app.view = "Projects"
    /\ app.status = Some("No projects available.")
    /\ \E k \in 1..Len(calls) : calls[k].call = "query_projects" /\ calls[k].ok
    /\ PopupsOpen(app) = 0

\* ------------------------------------------------------------------ ticks
\* C24: a Tick with a popup open and a running id cached queries the tickrs
\* first, whether or not the Store answers, and leaves the three popups,
\* with draft fields, active field and option lists, as they were.
C24_TickUnderPopupRefetches ==
    \A fail \in FailSets(app, "Tick", {}, MaxFailures) :
        LET s == Call(Entering(app, fail), "update", <<"Tick">>)
        IN (PopupsOpen(app) > 0 /\ IsSome(app.running_tickr))
           => /\ s.calls # <<>>
              /\ s.calls[1].call = "query_tickr"
              /\ PopupsOf(s) = PopupsOf(app)

\* A Tick has just re-fetched the tickrs under a NewTickr popup with a typed
\* label, shown over the Projects view while a timer runs.
C24_Witness ==
    /\ app.view = "Projects"
    /\ IsSome(app.new_tickr_popup)
    /\ Unwrap(app.new_tickr_popup).label # <<>>
    /\ IsSome(app.running_tickr)
    /\ calls # <<>>
    /\ calls[1] = [call |-> "query_tickr", ok |-> TRUE]
    /\ events > 0

\* ------------------------------------------------------------------ running id
\* The running id names a tickr of the Store whose last interval is open, or
\* is None when the Store has no such tickr.
Reflects(running_tickr, db) ==
    IF RunningEntries(db) = {}
    THEN running_tickr = None
    ELSE /\ running_tickr # None
         /\ \E e \in RunningEntries(db) : db.entries[e].id = Unwrap(running_tickr)

\* C25: after a Tick that finds a running id cached and whose query of the
\* tickrs succeeds, the running id reflects the Store.
C25_TickSyncsRunningId ==
    \A fail \in FailSets(app, "Tick", {}, MaxFailures) :
        LET s == Call(Entering(app, fail), "update", <<"Tick">>)
        IN (IsSome(app.running_tickr) /\ s.calls[1].ok)
           => Reflects(s.running_tickr, s.db)

\* A Tick over the Categories view has just found that the tickr whose id
\* was cached runs no more, and dropped the id.
C25_Witness ==
    /\ app.view = "Categories"
    /\ calls = <<[call |-> "query_tickr", ok |-> TRUE]>>
    /\ app.running_tickr = None
    /\ app.status # Some("No task running.")
    /\ RunningEntries(app.db) = {}
    /\ app.db.intervals # <<>>
    /\ events > 0

\* ------------------------------------------------------------------ elapsed time
\* The seconds interval k of a tickr counts for at time now: its end, or
\* now when it is open, less its start, and nothing when that is negative.
Counts(intervals, k, now) ==
    LET delta == (IF IsSome(intervals[k].end_time)
                  THEN Unwrap(intervals[k].end_time) ELSE now)
                 - intervals[k].start_time
    IN IF delta > 0 THEN delta ELSE 0

RECURSIVE CountsUpTo(_, _, _)
CountsUpTo(intervals, n, now) ==
    IF n = 0 THEN 0 ELSE CountsUpTo(intervals, n - 1, now) + Counts(intervals, n, now)

\* C26: the elapsed time shown on the line of a listed tickr with intervals
\* is, at every time now, the sum over its intervals of
\* max(0, (end or now) - start).
C26_ElapsedIgnoresNegativeIntervals ==
    \A k \in 1..Len(app.tickrs) : \A now \in 0..MaxTime :
        LET intervals == app.tickrs[k].intervals
        IN intervals # <<>>
           => elapsed(intervals, now)
                = format_duration(CountsUpTo(intervals, Len(intervals), now))

\* ------------------------------------------------------------------ start-up
\* An interactive state with nothing loaded.
UsableAndEmpty ==
    /\ app.running
    /\ app.view = "Dashboard"
    /\ app.projects = <<>>
    /\ app.tickrs = <<>>
    /\ app.selected_project_index = 0
    /\ app.selected_worked_project_index = 0
    /\ app.selected_tickr_index = 0
    /\ app.selected_category_index = 0
    /\ app.selected_tab_index = 0
    /\ PopupsOpen(app) = 0
    /\ app.running_tickr = None

\* The two queries App::new starts with have both failed.
InitialQueriesFailed == Len(calls) >= 2 /\ ~calls[1].ok /\ ~calls[2].ok

\* C27: when the storage cannot be opened, or the initial queries fail, the
\* program starts in a usable state with nothing loaded: Dashboard, empty
\* lists, cursors at 0, no popup, no running id.
C27_StartUpSurvivesFailures ==
    (events = 0 /\ (app = NoApp \/ InitialQueriesFailed)) => UsableAndEmpty

\* ------------------------------------------------------------------ edit commit
\* The category the EditTickr draft names: the id of the snapshot option at
\* category_index, none for the option at index 0.
DraftCategory(popup) ==
    IF popup.category_index = 0 THEN None
    ELSE popup.categories[popup.category_index + 1].id

\* The Store of s has the draft of the open EditTickr popup.
Stored(s) ==
    LET popup == Unwrap(app.edit_popup)
    IN \E e \in 1..Len(s.db.entries) :
          /\ s.db.entries[e].id = popup.tickr_id
          /\ s.db.entries[e].description = popup.label
          /\ s.db.entries[e].category_id = DraftCategory(popup)

\* The detail of s shows the draft of the open EditTickr popup.
Shown(s) ==
    LET popup == Unwrap(app.edit_popup)
    IN /\ s.selected_tickr # None
       /\ Unwrap(s.selected_tickr).id = popup.tickr_id
       /\ Unwrap(s.selected_tickr).description = popup.label
       /\ Unwrap(s.selected_tickr).category_id = DraftCategory(popup)

C29_LeavingProjectsEndsSearch ==
    [][(/\ app.view = "Projects"
        /\ app'.view # "Projects"
        /\ Len(app'.view_history) > Len(app.view_history))
       => /\ ~app'.projects_search_active
          /\ Call(Entering(app', {}), "load_projects", <<>>).projects
                = query_projects(app'.db)
          /\ app'.view = "Dashboard" => app'.projects = query_projects(app'.db)]_vars

\* ------------------------------------------------------------------ stored colours
UpperHexDigits ==
    {"0", "1", "2", "3", "4", "5", "6", "7", "8", "9", "A", "B", "C", "D", "E", "F"}

\* '#' and six upper-case hex digits.
NormalForm(color) ==
    /\ Len(color) = 7
    /\ color[1] = "#"
    /\ \A k \in 2..7 : color[k] \in UpperHexDigits

\* C30: every colour of the categories table is '#' followed by six
\* upper-case hex digits, whether the NewCategory popup or the category
\* command wrote it.
C30_StoredColoursAreNormalized ==
    \A k \in 1..Len(app.db.categories) : NormalForm(app.db.categories[k].color)

\* ------------------------------------------------------------------ task switch
\* The row of the entries table the command names: the first task of that
\* description in the project of that name, 0 when there is none.
Target(project, description, db) ==
    Position({e \in 1..Len(db.entries) :
                 /\ db.entries[e].description = description
                 /\ \E p \in 1..Len(db.projects) :
                       /\ db.projects[p].name = project
                       /\ db.projects[p].id = db.entries[e].project_id})

\* C31: the task switch command, run on a Store with at most one open
\* interval and naming a task of the Store, leaves exactly one open
\* interval, on that task, whichever project the running task was in.
C31_SwitchLeavesOnlyTargetRunning ==
    \A project \in CommandProjects : \A description \in CommandDescriptions :
        LET db == handle_task_switch(project, description, app.db)
            target == Target(project, description, app.db)
        IN (Cardinality(OpenIntervals(app.db)) <= 1 /\ target # 0)
           => /\ Cardinality(OpenIntervals(db)) = 1
              /\ \A k \in OpenIntervals(db) :
                    db.intervals[k].entry_id = app.db.entries[target].id

\* ------------------------------------------------------------------ running id after updates

\* C32: after every update in which no Store call failed, the running id
\* agrees with the Store: it is Some(id) exactly when tickr id has an open
\* interval in the Store, and None when no interval is open.
C32_RunningIdAgreesWithStore ==
    (events > 0 /\ ~panicked /\ \A k \in 1..Len(calls) : calls[k].ok)
        => /\ OpenIntervals(app.db) = {} => app.running_tickr = None
           /\ IsSome(app.running_tickr) => Running(Unwrap(app.running_tickr), app.db)
           /\ OpenIntervals(app.db) # {} => IsSome(app.running_tickr)

\* ------------------------------------------------------------------ project tickrs

\* C33: whenever update returns with view ProjectTickrs and a selected
\* project, every tickr of the in-memory tickr list belongs to that project.
C33_ProjectTickrsListsOnlyItsProject ==
    (events > 0 /\ ~panicked /\ app.view = "ProjectTickrs" /\ IsSome(app.selected_project))
        => \A k \in 1..Len(app.tickrs) :
              app.tickrs[k].project_id = Unwrap(app.selected_project).id

\* ------------------------------------------------------------------ idle ticks

\* C34: a Tick received while no running id is cached issues no Store call and
\* leaves every field of the state unchanged.
C34_IdleTickChangesNothing ==
    app.running_tickr = None => After("Tick") = Entering(app, {})

C34_Witness ==
    /\ app.running_tickr = None
    /\ app.status = Some("No task running.")
    /\ app.tickrs # <<>>
    /\ calls = <<>>
    /\ events > 1

\* ------------------------------------------------------------------ cursors

\* C35: in every reachable state the cursor of each non-empty list is below
\* the length of the list.
C35_CursorsWithinLists ==
    /\ app.projects # <<>> => app.selected_project_index < Len(app.projects)
    /\ app.worked_projects # <<>>
          => app.selected_worked_project_index < Len(app.worked_projects)
    /\ app.tickrs # <<>> => app.selected_tickr_index < Len(app.tickrs)
    /\ app.categories_list # <<>>
          => app.selected_category_index < Len(app.categories_list)
    /\ ~panicked

C35_Witness ==
    /\ app.view = "ProjectTickrs"
    /\ app.view_history = <<"Dashboard", "Tickrs", "Projects">>
    /\ Len(app.tickrs) < Len(app.db.entries)
    /\ app.tickrs # <<>>
    /\ app.selected_tickr_index = Len(app.tickrs) - 1
    /\ events = 4

\* ------------------------------------------------------------------ closing popups

\* State s is state a with its popup closed and nothing written to the Store
\* on the way.
Discarded(s, a) ==
    /\ PopupsOpen(s) = 0
    /\ WritesOf(s) = {}
    /\ s.db = a.db
    /\ s.running_tickr = a.running_tickr
    /\ s.view = a.view
    /\ s.view_history = a.view_history

Within(index, options) == index < Len(options)

\* The category snapshot starts with the synthetic "none" option.
NoneFirst(categories) == categories # <<>> /\ categories[1].id = None

\* Index after is index before moved one step down, and up, wrapping around a
\* snapshot of length len.
SteppedDown(after, before, len) == after = (before + 1) % len
SteppedUp(after, before, len) == after = (before + len - 1) % len

NewTickrIndices(popup) ==
    /\ Within(popup.category_index, popup.categories)
    /\ NoneFirst(popup.categories)
    /\ Within(popup.project_index, popup.projects)
    /\ popup.field = "Project" =>
          /\ SteppedDown(Unwrap(After("Down").new_tickr_popup).project_index,
                         popup.project_index, Len(popup.projects))
          /\ SteppedUp(Unwrap(After("Up").new_tickr_popup).project_index,
                       popup.project_index, Len(popup.projects))
    /\ popup.field = "Category" =>
          /\ SteppedDown(Unwrap(After("Down").new_tickr_popup).category_index,
                         popup.category_index, Len(popup.categories))
          /\ SteppedUp(Unwrap(After("Up").new_tickr_popup).category_index,
                       popup.category_index, Len(popup.categories))
    /\ After("Enter").status # Some("Project selection is required.")

EditIndices(popup) ==
    /\ Within(popup.category_index, popup.categories)
    /\ NoneFirst(popup.categories)
    /\ SteppedDown(Unwrap(After("Down").edit_popup).category_index,
                   popup.category_index, Len(popup.categories))
    /\ SteppedUp(Unwrap(After("Up").edit_popup).category_index,
                 popup.category_index, Len(popup.categories))

\* C37: while an EditTickr or NewTickr popup is open its category index is
\* within its category snapshot, which starts with the "none" option, and the
\* project index of NewTickr is within its project snapshot; Up and Down move
\* these indices by one with wraparound, and Enter resolves a project.
C37_PopupIndicesWithinSnapshots ==
    /\ IsSome(app.edit_popup) => EditIndices(Unwrap(app.edit_popup))
    /\ IsSome(app.new_tickr_popup) => NewTickrIndices(Unwrap(app.new_tickr_popup))

C37_Witness ==
    /\ IsSome(app.new_tickr_popup)
    /\ Unwrap(app.new_tickr_popup).field = "Project"
    /\ Unwrap(app.new_tickr_popup).project_index # 0
    /\ Unwrap(app.new_tickr_popup).project_index
          = Len(Unwrap(app.new_tickr_popup).projects) - 1
    /\ events > 1

\* ------------------------------------------------------------------ active search

\* State s has the view and the quit flag of state a.
Held(s, a) == s.view = a.view /\ s.running = a.running

\* C38: an active project search implies that the view is Projects and that
\* no popup is open; while the search is active no key press changes the
\* view or the quit flag.
C38_ActiveSearchHoldsProjects ==
    app.projects_search_active =>
        /\ app.view = "Projects"
        /\ PopupsOpen(app) = 0
        /\ \A key \in Keys : \A fail \in FailSets(app, key, {}, MaxFailures) :
              Held(Call(Entering(app, fail), "update", <<key>>), app)

C38_Witness ==
    /\ app.projects_search_active
    /\ app.projects_search_query = <<"a">>
    /\ app.view = "Projects"
    /\ events > 1

\* ------------------------------------------------------------------ history

\* C39: the history stack has no two adjacent equal views and its top entry
\* differs from the current view, so go_back with a non-empty history changes
\* the current view.
C39_HistoryHasNoRepeats ==
    /\ \A k \in 1..(Len(app.view_history) - 1) :
          app.view_history[k] # app.view_history[k + 1]
    /\ app.view_history # <<>> =>
          /\ app.view_history[Len(app.view_history)] # app.view
          /\ Request("go_back").view # app.view

C39_Witness ==
    /\ app.view_history = <<"Dashboard">>
    /\ app.view = "Projects"
    /\ IsSome(app.selected_project)
    /\ events = 3

====
